---------------------------- MODULE Spec2Model ----------------------------
(***************************************************************************)
(* Model of DocVerificator: the civil-identifier checksum and validation  *)
(* engine (validation.py) and the retry orchestration of process_document *)
(* (pipeline.py).                                                          *)
(*                                                                         *)
(* Text is a sequence of character codes.  Codes 0..9 are the ASCII digits *)
(* '0'..'9', codes 10..19 the Arabic-Indic digits U+0660..U+0669 (Python's *)
(* \d and int() accept both), code 20 and above are non-digit characters.  *)
(* An absent (None) text or date is None; an absent check digit NoDigit.   *)
(* Optional booleans are the strings "True", "False" and "None".           *)
(* Confidences are hundredths (0.55 is 55).                                *)
(***************************************************************************)
EXTENDS Integers, Sequences, FiniteSets, TLC

VARIABLES
    \* ---- checksum harness (tests/test_validation.py) ----
    civil_id,        \* the 12-character identifier under test
    mutations,       \* number of single-digit changes applied to it
    prev_verdict,    \* validate_civil_id_checksum of the identifier before the last change
    verdict          \* validate_civil_id_checksum of civil_id, "None" before the first call

ckvars == <<civil_id, mutations, prev_verdict, verdict>>

VARIABLES
    \* ---- validate_fields(fields, settings, expected_name, expected_dob) ----
    fields,          \* ExtractedFields: the argument of validate_fields / the current best
    expected_name,   \* user-supplied expected name, None when not given
    expected_dob,    \* user-supplied expected birth date (text), None when not given
    today,           \* date.today()
    lib_score,       \* what the fuzzy-matching library answers for the two names (1/10000)
    validation,      \* the ValidationResult returned, NoResult before the call
    vpc              \* "idle", "call" (before validate_fields), "returned"

vlvars == <<fields, expected_name, expected_dob, today, lib_score, validation, vpc>>

VARIABLES
    \* ---- process_document (pipeline.py) ----
    doc,             \* the document: its image, what the first pass yields, what retries may read
    cfg,             \* Settings: the retry toggles and low_conf_threshold
    pc,              \* "idle", "initial", "evaluate", "retrying", "post_loop", "validate", "done", "raised"
    error,           \* the kind of exception that left process_document, "none" otherwise
    prep,            \* PreprocessArtifacts of the first pass
    ocr,             \* OCRResult held as current best
    best_source,     \* source label held as current best
    warnings,        \* the pipeline's warnings list
    retry_for_low_conf,
    retry_images,    \* list of (label, image) built by _build_retry_images
    idx,             \* position of the outer loop in retry_images
    sub,             \* 0: before preprocessing, 1 and 2: sub-candidate, 3: after the inner loop
    local_best_ocr, local_best_fields, local_best_label,
    result,          \* the PipelineResult returned
    ocr_calls,       \* number of backend.run calls made
    failures,        \* number of exceptions caught in the retry loop
    evaluated,       \* the passes whose OCR and extraction succeeded: (reading, confidence)
    attempted        \* labels of the retry images the loop has taken up, in order

ppvars == <<doc, cfg, pc, error, prep, ocr, best_source, warnings, retry_for_low_conf,
            retry_images, idx, sub, local_best_ocr, local_best_fields, local_best_label,
            result, ocr_calls, failures, evaluated, attempted>>

VARIABLES
    \* ---- ranking of synthetic candidates ----
    cands,           \* three candidates (OCRResult, ExtractedFields), <<>> when unused
    selected         \* index of the candidate selected as best, 0 before the selection

rkvars == <<cands, selected>>

VARIABLES
    \* ---- identifier built from a date and decoded (tests/test_validation.py) ----
    born,            \* the (year, month, day) written into the identifier, not always a real date
    lead,            \* the first digit of the identifier
    serial,          \* its last five digits
    encoded,         \* the identifier text, <<>> before it is built
    decoded,         \* extract_dob_from_civil_id(encoded), None before the call
    dpc              \* "idle", "build", "decode", "done"

dcvars == <<born, lead, serial, encoded, decoded, dpc>>

VARIABLES
    \* ---- extract_fields(ocr_result) (extraction.py) ----
    ocr_lines,       \* the texts of ocr_result.lines
    clean_lines,     \* the cleaned, non-blank lines
    xpc              \* "idle", "clean", "civil_id", "dates", "done"

exvars == <<ocr_lines, clean_lines, xpc>>

vars == <<ckvars, vlvars, ppvars, rkvars, dcvars, exvars>>

-----------------------------------------------------------------------------
(* Bounds *)

\* single-digit changes applied to a base identifier
MaxMutations == 2

\* exceptions injected into one run of the retry loop
MaxFailures == 1

-----------------------------------------------------------------------------
(* Values *)

None == << -1 >>
NoDigit == -1

Tri(b) == IF b THEN "True" ELSE "False"

\* Python truthiness of an optional string: None and "" are falsy
Truthy(s) == s # None /\ s # <<>>

\* Characters are numbers: 0..9 are the ASCII digits '0'..'9', 10..19 the Arabic-Indic
\* digits U+0660..U+0669, 90..99 the Extended Arabic-Indic digits U+06F0..U+06F9,
\* 20..29 punctuation, 100..125 the letters a..z, 200..225 the letters A..Z and
\* 300..399 Arabic letters.

\* re \d on str, str.isdigit and int(): any Unicode decimal digit
IsDigitChar(c) == c \in 0..19 \/ c \in 90..99

\* int() of one digit character
DigitVal(c) == c % 10

AsciiDigits == 0..9

\* character codes of the non-digit characters used
Ch == [slash |-> 20, dash |-> 21, dot |-> 22, sp |-> 23, us |-> 24, colon |-> 25,
       hash |-> 26, pipe |-> 27,
       a |-> 100, b |-> 101, c |-> 102, d |-> 103, e |-> 104, f |-> 105, g |-> 106,
       h |-> 107, i |-> 108, j |-> 109, k |-> 110, l |-> 111, m |-> 112, n |-> 113,
       o |-> 114, p |-> 115, q |-> 116, r |-> 117, s |-> 118, t |-> 119, u |-> 120,
       v |-> 121, w |-> 122, x |-> 123, y |-> 124, z |-> 125,
       A |-> 200, B |-> 201, C |-> 202, D |-> 203, E |-> 204, F |-> 205, G |-> 206,
       H |-> 207, I |-> 208, J |-> 209, K |-> 210, L |-> 211, M |-> 212, N |-> 213,
       O |-> 214, P |-> 215, Q |-> 216, R |-> 217, S |-> 218, T |-> 219, U |-> 220,
       V |-> 221, W |-> 222, X |-> 223, Y |-> 224, Z |-> 225,
       alef |-> 300, lam |-> 301, reh |-> 302, qaf |-> 303, meem |-> 304, dal |-> 305,
       noon |-> 306, yeh |-> 307, beh |-> 308, tah |-> 309, tehm |-> 310, teh |-> 311,
       khah |-> 312, heh |-> 313, hamza |-> 314, seen |-> 315, kaf |-> 316, ain |-> 317,
       sad |-> 318, hah |-> 319, sheen |-> 320, feh |-> 321,
       nl |-> 28]

IsSpaceChar(c) == c = Ch.sp
IsLowerChar(c) == c \in 100..125
IsUpperChar(c) == c \in 200..225
IsArabicLetter(c) == c \in 300..399
\* re \w on str: letters, decimal digits and the underscore
IsWordChar(c) ==
    IsDigitChar(c) \/ IsLowerChar(c) \/ IsUpperChar(c) \/ IsArabicLetter(c) \/ c = Ch.us

-----------------------------------------------------------------------------
(* validation.py: checksum *)

_CHECKSUM_WEIGHTS == <<2, 1, 6, 3, 7, 9, 10, 5, 8, 4, 2>>

\* _CIVIL_RE = ^\d{12}$ used with fullmatch
_CIVIL_RE_fullmatch(s) == Len(s) = 12 /\ \A i \in 1..12 : IsDigitChar(s[i])

RECURSIVE WeightedSum(_, _)
WeightedSum(s, i) ==
    IF i = 0 THEN 0
    ELSE DigitVal(s[i]) * _CHECKSUM_WEIGHTS[i] + WeightedSum(s, i - 1)

compute_civil_id_check_digit_wrong_range(first_11_digits) ==
    IF ~(Len(first_11_digits) = 11 /\ \A i \in 1..11 : IsDigitChar(first_11_digits[i]))
    THEN NoDigit
    ELSE LET total == WeightedSum(first_11_digits, 11)
             expected == (11 - (total % 11)) % 10
         IN  expected

compute_civil_id_check_digit(first_11_digits) ==
    IF ~(Len(first_11_digits) = 11 /\ \A i \in 1..11 : IsDigitChar(first_11_digits[i]))
    THEN NoDigit
    ELSE LET total == WeightedSum(first_11_digits, 11)
             expected == 11 - (total % 11)
         IN  IF expected < 0 \/ expected > 9 THEN NoDigit ELSE expected

validate_civil_id_checksum_prefix_only(cid) ==
    IF ~_CIVIL_RE_fullmatch(cid) THEN FALSE
    ELSE LET expected == compute_civil_id_check_digit(SubSeq(cid, 1, 10) \o <<0>>)
         IN  IF expected = NoDigit THEN FALSE
             ELSE expected = DigitVal(cid[12])

validate_civil_id_checksum(cid) ==
    IF ~_CIVIL_RE_fullmatch(cid) THEN FALSE
    ELSE LET expected == compute_civil_id_check_digit(SubSeq(cid, 1, 11))
         IN  IF expected = NoDigit THEN FALSE
             ELSE expected = DigitVal(cid[12])

-----------------------------------------------------------------------------
(* Calendar dates: a date is <<year, month, day>>, as datetime.date *)

IsLeap(y) == (y % 4 = 0 /\ y % 100 # 0) \/ y % 400 = 0

DaysInMonth(y, m) ==
    IF m = 2 THEN (IF IsLeap(y) THEN 29 ELSE 28)
    ELSE IF m \in {4, 6, 9, 11} THEN 30 ELSE 31

\* date(year, month, day); the ValueError of an impossible date is the result None,
\* which every caller in validation.py turns it into
date(y, m, d) ==
    IF y \in 1..9999 /\ m \in 1..12 /\ d \in 1..DaysInMonth(y, m)
    THEN <<y, m, d>> ELSE None

\* a < b on dates, and on (month, day) pairs
DateLess(a, b) ==
    \/ a[1] < b[1]
    \/ a[1] = b[1] /\ a[2] < b[2]
    \/ a[1] = b[1] /\ a[2] = b[2] /\ a[3] < b[3]

MonthDayLess(a, b) == a[2] < b[2] \/ (a[2] = b[2] /\ a[3] < b[3])

\* int() of a run of digit characters (leading blanks skipped, as int() does)
RECURSIVE IntOf(_)
IntOf(f) ==
    IF f = <<>> THEN 0
    ELSE IF IsSpaceChar(f[Len(f)]) THEN IntOf(SubSeq(f, 1, Len(f) - 1))
    ELSE 10 * IntOf(SubSeq(f, 1, Len(f) - 1)) + DigitVal(f[Len(f)])

-----------------------------------------------------------------------------
(* validation.py: extract_dob_from_civil_id, parse_iso_date, is_plausible_dob *)

extract_dob_from_civil_id_future_kept(cid, now) ==
    IF ~_CIVIL_RE_fullmatch(cid) THEN None
    ELSE LET century_digit == cid[1]
             yy == IntOf(SubSeq(cid, 2, 3))
             mm == IntOf(SubSeq(cid, 4, 5))
             dd == IntOf(SubSeq(cid, 6, 7))
         IN  IF century_digit \notin {2, 3} THEN None
             ELSE date(IF century_digit = 2 THEN 1900 + yy ELSE 2000 + yy, mm, dd)

extract_dob_from_civil_id(cid, now) ==
    IF ~_CIVIL_RE_fullmatch(cid) THEN None
    ELSE LET century_digit == cid[1]
             yy == IntOf(SubSeq(cid, 2, 3))
             mm == IntOf(SubSeq(cid, 4, 5))
             dd == IntOf(SubSeq(cid, 6, 7))
         IN  IF century_digit \notin {2, 3} THEN None
             ELSE LET year == IF century_digit = 2 THEN 1900 + yy ELSE 2000 + yy
                      dt == date(year, mm, dd)
                  IN  IF dt = None THEN None
                      ELSE IF DateLess(now, dt) THEN None
                      ELSE dt

\* strptime directives, each matched against one whole separated field:
\* %Y = \d\d\d\d, %m = 1[0-2]|0[1-9]|[1-9], %d = 3[0-1]|[1-2]\d|0[1-9]|[1-9]| [1-9]
MatchY(f) == Len(f) = 4 /\ \A i \in 1..4 : IsDigitChar(f[i])

MatchM(f) ==
    \/ Len(f) = 2 /\ f[1] = 1 /\ f[2] \in 0..2
    \/ Len(f) = 2 /\ f[1] = 0 /\ f[2] \in 1..9
    \/ Len(f) = 1 /\ f[1] \in 1..9

MatchD(f) ==
    \/ Len(f) = 2 /\ f[1] = 3 /\ f[2] \in 0..1
    \/ Len(f) = 2 /\ f[1] \in 1..2 /\ IsDigitChar(f[2])
    \/ Len(f) = 2 /\ f[1] = 0 /\ f[2] \in 1..9
    \/ Len(f) = 1 /\ f[1] \in 1..9
    \/ Len(f) = 2 /\ IsSpaceChar(f[1]) /\ f[2] \in 1..9

\* datetime.strptime(value, fmt).date() for a format of three directives joined by sep;
\* year_first: %Y sep %m sep %d, otherwise %d sep %m sep %Y.  None stands for ValueError.
strptime_date(value, sep, year_first) ==
    LET P == {i \in 1..Len(value) : value[i] = sep}
    IN  IF Cardinality(P) # 2 THEN None
        ELSE LET p1 == CHOOSE i \in P : \A j \in P : i <= j
                 p2 == CHOOSE i \in P : \A j \in P : i >= j
                 f1 == SubSeq(value, 1, p1 - 1)
                 f2 == SubSeq(value, p1 + 1, p2 - 1)
                 f3 == SubSeq(value, p2 + 1, Len(value))
             IN  IF year_first
                 THEN IF MatchY(f1) /\ MatchM(f2) /\ MatchD(f3)
                      THEN date(IntOf(f1), IntOf(f2), IntOf(f3)) ELSE None
                 ELSE IF MatchD(f1) /\ MatchM(f2) /\ MatchY(f3)
                      THEN date(IntOf(f3), IntOf(f2), IntOf(f1)) ELSE None

parse_iso_date(value) ==
    IF ~Truthy(value) THEN None
    ELSE LET r1 == strptime_date(value, Ch.dash, TRUE)       \* %Y-%m-%d
             r2 == strptime_date(value, Ch.slash, FALSE)     \* %d/%m/%Y
             r3 == strptime_date(value, Ch.dash, FALSE)      \* %d-%m-%Y
             r4 == strptime_date(value, Ch.slash, TRUE)      \* %Y/%m/%d
         IN  IF r1 # None THEN r1
             ELSE IF r2 # None THEN r2
             ELSE IF r3 # None THEN r3
             ELSE r4

min_age == 16
max_age == 110

is_plausible_dob_year_difference(value, now, lo, hi) ==
    IF value = None THEN "None"
    ELSE IF DateLess(now, value) THEN "False"
    ELSE Tri(lo <= now[1] - value[1] /\ now[1] - value[1] <= hi)

is_plausible_dob(value, now, lo, hi) ==
    IF value = None THEN "None"
    ELSE IF DateLess(now, value) THEN "False"
    ELSE LET age == now[1] - value[1] - (IF MonthDayLess(now, value) THEN 1 ELSE 0)
         IN  Tri(lo <= age /\ age <= hi)

-----------------------------------------------------------------------------
(* validation.py: names *)

\* str.casefold on the letters used
casefold(c) == IF IsUpperChar(c) THEN c - 100 ELSE c

\* re.sub(r"[^\w\s]", " ", text): every character that is neither \w nor blank becomes a blank
PunctToSpace(c) == IF IsWordChar(c) \/ IsSpaceChar(c) THEN c ELSE Ch.sp

\* re.sub(r"\s+", " ", text).strip(): blank runs collapse, leading and trailing blanks go
RECURSIVE CollapseSpaces(_)
CollapseSpaces(t) ==
    IF t = <<>> THEN <<>>
    ELSE LET rest == CollapseSpaces(Tail(t))
         IN  IF IsSpaceChar(Head(t))
             THEN (IF rest = <<>> \/ IsSpaceChar(Head(rest)) THEN rest ELSE <<Ch.sp>> \o rest)
             ELSE <<Head(t)>> \o rest

Strip(t) == IF t # <<>> /\ IsSpaceChar(Head(t)) THEN Tail(t) ELSE t

_normalize_name(name) ==
    Strip(CollapseSpaces([i \in 1..Len(name) |-> PunctToSpace(casefold(name[i]))]))

\* name_similarity: 0.0 when either normalized name is empty, otherwise the rounded
\* score of the fuzzy-matching library (score, in 1/10000)
name_similarity(expected, extracted, score) ==
    LET left == _normalize_name(expected)
        right == _normalize_name(extracted)
    IN  IF left = <<>> \/ right = <<>> THEN 0 ELSE score

\* score >= 0.84
NameMatchThreshold == 8400

-----------------------------------------------------------------------------
(* validation.py: validate_fields *)

NoScore == -1

W == [no_key     |-> "No key fields were extracted from OCR output.",
      checksum   |-> "Civil ID checksum failed (community algorithm).",
      dob_cid    |-> "DOB from OCR does not match DOB encoded in Civil ID.",
      exp_cid    |-> "Expected DOB does not match DOB encoded in Civil ID.",
      format     |-> "Civil ID format is invalid (must be 12 digits).",
      plausible  |-> "DOB failed plausibility checks.",
      name       |-> "Name similarity is low.",
      no_civil   |-> "Civil ID was not extracted from OCR text.",
      low_conf   |-> "Low OCR confidence after fallback attempts."]

\* out.warnings.append(w) when cond holds
AppendIf(ws, cond, w) == IF cond THEN Append(ws, w) ELSE ws

\* lines 153-161: the list of hard failures and overall_pass
overall_pass_ignores_checksum(f, exp_name, no_key_fields, fmt, chk, cons, plaus, match) ==
    ~(\/ no_key_fields
      \/ fmt = "False"
      \/ cons = "False"
      \/ plaus = "False"
      \/ (IF Truthy(exp_name) /\ Truthy(f.name) THEN match = "False" ELSE FALSE))

overall_pass_of(f, exp_name, no_key_fields, fmt, chk, cons, plaus, match) ==
    ~(\/ no_key_fields
      \/ fmt = "False"
      \/ (IF Truthy(f.civil_id) THEN chk = "False" ELSE FALSE)
      \/ cons = "False"
      \/ plaus = "False"
      \/ (IF Truthy(exp_name) /\ Truthy(f.name) THEN match = "False" ELSE FALSE))

\* lines 143-144: the plausibility warning
plausibility_warning_dropped(ws, plaus) == ws

plausibility_warning(ws, plaus) == AppendIf(ws, plaus = "False", W.plausible)

\* lines 121-123 and 138: civil_id_checksum_valid
civil_id_checksum_valid_unset_when_malformed(f, fmt) ==
    IF Truthy(f.civil_id) /\ fmt = "True"
    THEN Tri(validate_civil_id_checksum(f.civil_id)) ELSE "None"

civil_id_checksum_valid_of(f, fmt) ==
    IF Truthy(f.civil_id)
    THEN (IF fmt = "True" THEN Tri(validate_civil_id_checksum(f.civil_id)) ELSE "False")
    ELSE "None"

\* lines 130-131: civil_id_dob_consistent
civil_id_dob_consistent_without_decoded(fmt, extracted_dob, cid_dob) ==
    IF fmt = "True" /\ extracted_dob # None
    THEN Tri(extracted_dob = cid_dob) ELSE "None"

civil_id_dob_consistent_of(fmt, extracted_dob, cid_dob) ==
    IF fmt = "True" /\ extracted_dob # None /\ cid_dob # None
    THEN Tri(extracted_dob = cid_dob) ELSE "None"

validate_fields(f, exp_name, exp_dob, now, score) ==
    LET no_key_fields == ~(Truthy(f.civil_id) \/ Truthy(f.birth_date) \/ Truthy(f.name))
        w1 == AppendIf(<<>>, no_key_fields, W.no_key)
        has_id == Truthy(f.civil_id)
        fmt == IF has_id THEN Tri(_CIVIL_RE_fullmatch(f.civil_id)) ELSE "None"
        chk == civil_id_checksum_valid_of(f, fmt)
        cid_dob == IF fmt = "True" THEN extract_dob_from_civil_id(f.civil_id, now) ELSE None
        extracted_dob == parse_iso_date(f.birth_date)
        expected_dob_parsed == parse_iso_date(exp_dob)
        cons == civil_id_dob_consistent_of(fmt, extracted_dob, cid_dob)
        w2 == AppendIf(w1, fmt = "True" /\ chk = "False", W.checksum)
        w3 == AppendIf(w2, cons = "False", W.dob_cid)
        w4 == AppendIf(w3, fmt = "True" /\ expected_dob_parsed # None /\ cid_dob # None
                           /\ expected_dob_parsed # cid_dob, W.exp_cid)
        w5 == AppendIf(w4, fmt = "False", W.format)
        dob_for_plausibility == IF extracted_dob # None THEN extracted_dob ELSE expected_dob_parsed
        plaus == is_plausible_dob(dob_for_plausibility, now, min_age, max_age)
        w6 == plausibility_warning(w5, plaus)
        both_names == Truthy(exp_name) /\ Truthy(f.name)
        sim == IF both_names THEN name_similarity(exp_name, f.name, score) ELSE NoScore
        match == IF both_names THEN Tri(sim >= NameMatchThreshold) ELSE "None"
        w7 == AppendIf(w6, match = "False", W.name)
    IN  [civil_id_format_valid   |-> fmt,
         civil_id_checksum_valid |-> chk,
         civil_id_dob_consistent |-> cons,
         dob_plausible           |-> plaus,
         name_similarity_score   |-> sim,
         name_match              |-> match,
         overall_pass            |-> overall_pass_of(f, exp_name, no_key_fields, fmt, chk, cons, plaus, match),
         warnings                |-> w7]

-----------------------------------------------------------------------------
(* pipeline.py: ranking *)

_field_score(f) ==
      (IF Truthy(f.civil_id) THEN 6 ELSE 0)
    + (IF Truthy(f.birth_date) THEN 3 ELSE 0)
    + (IF Truthy(f.expiry_date) THEN 3 ELSE 0)
    + (IF Truthy(f.name) THEN 2 ELSE 0)
    + (IF f.doc_type_hint = "civil_id" THEN 1 ELSE 0)

\* Python's comparison of two (int, float) tuples: a > b
TupleGreater(a, b) == a[1] > b[1] \/ (a[1] = b[1] /\ a[2] > b[2])

_is_better_candidate_confidence_first(candidate_ocr, candidate_fields, best_ocr, best_fields) ==
    LET candidate_rank == <<candidate_ocr.mean_confidence, _field_score(candidate_fields)>>
        best_rank == <<best_ocr.mean_confidence, _field_score(best_fields)>>
    IN  TupleGreater(candidate_rank, best_rank)

_is_better_candidate_or_equal(candidate_ocr, candidate_fields, best_ocr, best_fields) ==
    LET candidate_rank == <<_field_score(candidate_fields), candidate_ocr.mean_confidence>>
        best_rank == <<_field_score(best_fields), best_ocr.mean_confidence>>
    IN  TupleGreater(candidate_rank, best_rank) \/ candidate_rank = best_rank

_is_better_candidate(candidate_ocr, candidate_fields, best_ocr, best_fields) ==
    LET candidate_rank == <<_field_score(candidate_fields), candidate_ocr.mean_confidence>>
        best_rank == <<_field_score(best_fields), best_ocr.mean_confidence>>
    IN  TupleGreater(candidate_rank, best_rank)

-----------------------------------------------------------------------------
(* pipeline.py: retry images.  An image is [h, w]; a crop that _clip_crop   *)
(* refuses is NoCrop.                                                       *)

NoCrop == [h |-> 0, w |-> 0]

Max(a, b) == IF a >= b THEN a ELSE b
Min(a, b) == IF a <= b THEN a ELSE b

MinCropSide == 40

_clip_crop(image, y0, y1, x0, x1) ==
    LET h == image.h
        w == image.w
        cy0 == Max(0, Min(h - 1, y0))
        cy1 == Max(0, Min(h, y1))
        cx0 == Max(0, Min(w - 1, x0))
        cx1 == Max(0, Min(w, x1))
    IN  IF cy1 - cy0 < MinCropSide \/ cx1 - cx0 < MinCropSide THEN NoCrop
        ELSE [h |-> cy1 - cy0, w |-> cx1 - cx0]

max_regions == 3

\* the crops of the card-like regions the contour analysis finds: image.cards of them,
\* never more than max_regions
_detect_card_like_crops(image) ==
    [i \in 1..Min(image.cards, max_regions) |-> [h |-> image.h, w |-> image.w]]

\* int(h * 0.60) and the like, for the sizes used here
Percent(h, p) == (h * p) \div 100

KeepCrops(pairs) == SelectSeq(pairs, LAMBDA c : c.image # NoCrop)

CardLabel(i) == IF i = 1 THEN "card1" ELSE IF i = 2 THEN "card2" ELSE "card3"

_build_retry_images(image, include_rotations) ==
    LET h == image.h
        w == image.w
        top60 == _clip_crop(image, 0, Percent(h, 60), 0, w)
        top50 == _clip_crop(image, 0, Percent(h, 50), 0, w)
        mid80 == _clip_crop(image, Percent(h, 10), Percent(h, 90), 0, w)
        bottom60 == _clip_crop(image, Percent(h, 40), h, 0, w)
        bands == KeepCrops(<< [label |-> "top60", image |-> top60],
                              [label |-> "top50", image |-> top50],
                              [label |-> "mid80", image |-> mid80],
                              [label |-> "bottom60", image |-> bottom60] >>)
        crops == _detect_card_like_crops(image)
        cards == [i \in 1..Len(crops) |-> [label |-> CardLabel(i), image |-> crops[i]]]
        rotations == IF include_rotations
                     THEN << [label |-> "rot90",  image |-> [h |-> w, w |-> h]],
                             [label |-> "rot180", image |-> [h |-> h, w |-> w]],
                             [label |-> "rot270", image |-> [h |-> w, w |-> h]] >>
                     ELSE <<>>
    IN  << [label |-> "original", image |-> [h |-> h, w |-> w]] >> \o bands \o cards \o rotations

-----------------------------------------------------------------------------
(* Texts used as inputs *)

D2(n) == <<n \div 10, n % 10>>
D4(n) == <<n \div 1000, (n \div 100) % 10, (n \div 10) % 10, n % 10>>

\* extraction.py _format_date_output: value.strftime("%d/%m/%Y")
_format_date_output(value) ==
    D2(value[3]) \o <<Ch.slash>> \o D2(value[2]) \o <<Ch.slash>> \o D4(value[1])

\* the YYYY-MM-DD form the command line asks for in --expected-dob
IsoText(value) ==
    D4(value[1]) \o <<Ch.dash>> \o D2(value[2]) \o <<Ch.dash>> \o D2(value[3])

\* the same date written with another separator (no format of parse_iso_date reads it)
DottedText(value) ==
    D2(value[3]) \o <<Ch.dot>> \o D2(value[2]) \o <<Ch.dot>> \o D4(value[1])

ArabicIndic(t) == [i \in 1..Len(t) |-> t[i] + 10]

Names == [john_doe |-> <<Ch.J, Ch.o, Ch.h, Ch.n, Ch.sp, Ch.D, Ch.o, Ch.e>>,
          john_doe_punct |-> <<Ch.j, Ch.o, Ch.h, Ch.n, Ch.dash, Ch.d, Ch.o, Ch.e>>,
          jane |-> <<Ch.J, Ch.a, Ch.n, Ch.e>>,
          blank |-> <<Ch.sp>>,
          punct |-> <<Ch.sp, Ch.dot, Ch.sp>>]

Ids == [valid_2003       |-> <<3,0,3,0,9,1,6,0,0,0,8,4>>,   \* checksum valid, born 16/09/2003
        badsum_1999      |-> <<2,9,9,0,4,1,2,1,2,3,4,5>>,   \* no check digit exists, born 12/04/1999
        valid_2012       |-> <<3,1,2,0,1,0,1,0,0,0,0,8>>,   \* checksum valid, born 01/01/2012
        valid_century1   |-> <<1,0,3,0,9,1,6,0,0,0,0,2>>,   \* checksum valid, century digit 1
        valid_month13    |-> <<3,0,2,1,3,3,0,0,0,0,0,8>>,   \* checksum valid, month 13
        valid_future     |-> <<3,3,3,0,1,0,1,0,0,0,1,9>>,   \* checksum valid, born 01/01/2033
        eleven           |-> <<3,0,3,0,9,1,6,0,0,0,8>>,     \* 11 digits
        letter           |-> <<3,0,3,0,9,1,6,0,0,0,8,Ch.O>>] \* a letter for the check digit

-----------------------------------------------------------------------------
(* Values standing for None, and the state of the parts a specification leaves alone *)

NoResult == [overall_pass |-> FALSE, warnings |-> <<"not called">>]

NoFields == [civil_id |-> None, birth_date |-> None, expiry_date |-> None, name |-> None,
             doc_type_hint |-> "None", raw_lines |-> <<"none">>]

NoOcr == [lines |-> <<"none">>, mean_confidence |-> 0]

NoLabel == "None"

NoPipelineResult == [ocr_source |-> "None"]

NoDoc == [image |-> [h |-> 0, w |-> 0, cards |-> 0]]

DefaultCfg == [retry_low_conf_on_original |-> TRUE, retry_missing_key_fields |-> TRUE,
               try_rotations_on_missing_fields |-> TRUE, low_conf_threshold |-> 55]

IdleRank ==
    /\ cands = <<>>
    /\ selected = 0

IdlePipe ==
    /\ doc = NoDoc
    /\ cfg = DefaultCfg
    /\ pc = "idle"
    /\ error = "none"
    /\ prep = [deskew_angle |-> 0]
    /\ ocr = NoOcr
    /\ best_source = NoLabel
    /\ warnings = <<>>
    /\ retry_for_low_conf = FALSE
    /\ retry_images = <<>>
    /\ idx = 0
    /\ sub = 0
    /\ local_best_ocr = NoOcr
    /\ local_best_fields = NoFields
    /\ local_best_label = NoLabel
    /\ result = NoPipelineResult
    /\ ocr_calls = 0
    /\ failures = 0
    /\ evaluated = {}
    /\ attempted = <<>>

-----------------------------------------------------------------------------
(* Specification SpecVal: validate_fields called once on arbitrary fields *)

TodayChoices == { <<2026, 11, 1>>, <<2027, 2, 28>> }

CivilIdInputs ==
    { None, <<>>, Ids.valid_2003, ArabicIndic(Ids.valid_2003), Ids.badsum_1999, Ids.valid_2012,
      Ids.valid_century1, Ids.valid_month13, Ids.valid_future, Ids.eleven, Ids.letter }

BirthDateInputs ==
    { None, <<>>,
      _format_date_output(<<2003, 9, 16>>), IsoText(<<2003, 9, 16>>),
      DottedText(<<2003, 9, 16>>),
      _format_date_output(<<1999, 4, 12>>),
      _format_date_output(<<2012, 1, 1>>),
      _format_date_output(<<2010, 11, 1>>),          \* 16 years before 01/11/2026
      _format_date_output(<<2010, 11, 2>>),          \* one day short of 16 on 01/11/2026
      _format_date_output(<<1916, 2, 29>>),          \* 110 on 28/02/2027, 111 the day after
      _format_date_output(<<1900, 1, 1>>),
      <<3, 1, Ch.slash, 0, 2, Ch.slash, 2, 0, 0, 3>>, \* 31/02/2003: no such day
      _format_date_output(<<2030, 1, 1>>) }           \* after today

ExpectedDobInputs ==
    { None, IsoText(<<2003, 9, 16>>), IsoText(<<1999, 4, 12>>), IsoText(<<2012, 1, 1>>),
      DottedText(<<2003, 9, 16>>) }

NameInputs == { None, Names.john_doe, Names.blank }

ExpectedNameInputs == { None, <<>>, Names.john_doe_punct, Names.punct }

\* scores the fuzzy matcher may answer, around the 0.84 threshold
LibScores == { 0, 8399, 8400, 10000 }

IdleDc ==
    /\ born = <<0, 0, 0>>
    /\ lead = 0
    /\ serial = <<>>
    /\ encoded = <<>>
    /\ decoded = None
    /\ dpc = "idle"

IdleEx ==
    /\ ocr_lines = <<>>
    /\ clean_lines = <<>>
    /\ xpc = "idle"

IdleVal ==
    /\ fields = NoFields
    /\ expected_name = None
    /\ expected_dob = None
    /\ today = <<2026, 11, 1>>
    /\ lib_score = 0
    /\ validation = NoResult
    /\ vpc = "idle"

IdleCk ==
    /\ civil_id = <<>>
    /\ mutations = 0
    /\ prev_verdict = "None"
    /\ verdict = "None"

InitVal ==
    /\ IdleCk
    /\ IdleDc
    /\ IdleEx
    /\ IdlePipe
    /\ IdleRank
    /\ \E cid \in CivilIdInputs, bd \in BirthDateInputs, nm \in NameInputs :
          fields = [NoFields EXCEPT !.civil_id = cid, !.birth_date = bd, !.name = nm,
                                    !.raw_lines = <<"given">>]
    /\ expected_name \in ExpectedNameInputs
    /\ expected_dob \in ExpectedDobInputs
    /\ today \in TodayChoices
    /\ lib_score \in LibScores
    \* the matcher is consulted only for two names that both normalize to something
    /\ (~(Truthy(expected_name) /\ Truthy(fields.name)
          /\ _normalize_name(expected_name) # <<>> /\ _normalize_name(fields.name) # <<>>))
          => lib_score = 0
    /\ validation = NoResult
    /\ vpc = "call"

\* result = validate_fields(fields, Settings(), expected_name, expected_dob)
CallValidateFields ==
    /\ vpc = "call"
    /\ validation' = validate_fields(fields, expected_name, expected_dob, today, lib_score)
    /\ vpc' = "returned"
    /\ UNCHANGED <<fields, expected_name, expected_dob, today, lib_score, ckvars, ppvars, rkvars, dcvars, exvars>>

NextVal == CallValidateFields

SpecVal == InitVal /\ [][NextVal]_vars

-----------------------------------------------------------------------------
(* Checksum harness: identifiers built as in tests/test_validation.py and  *)
(* changed one digit at a time.                                            *)

\* 2960412 0000 c, 3011108 0000 c, 3040917 0000 c: the prefixes _build_valid_id starts from,
\* with check digit 0 (never valid), and the identifiers of tests/test_extraction.py
BaseIds ==
    { <<2,9,6,0,4,1,2,0,0,0,0,0>>,
      <<3,0,1,1,1,0,8,0,0,0,0,0>>,
      <<3,0,3,0,9,1,6,0,0,0,8,4>>,
      <<2,9,9,0,4,1,2,1,2,3,4,5>> }

InitCk ==
    /\ IdleVal
    /\ IdleDc
    /\ IdleEx
    /\ IdlePipe
    /\ IdleRank
    /\ civil_id \in BaseIds
    /\ mutations = 0
    /\ prev_verdict = "None"
    /\ verdict = "None"

\* self.assertTrue/assertFalse(validate_civil_id_checksum(cid))
Validate ==
    /\ verdict = "None"
    /\ verdict' = Tri(validate_civil_id_checksum(civil_id))
    /\ UNCHANGED <<civil_id, mutations, prev_verdict, vlvars, ppvars, rkvars, dcvars, exvars>>

\* invalid = cid with the digit at position i replaced by another digit d, then validated
MutateDigit(i, d) ==
    /\ verdict # "None"
    /\ mutations < MaxMutations
    /\ civil_id[i] # d
    /\ civil_id' = [civil_id EXCEPT ![i] = d]
    /\ mutations' = mutations + 1
    /\ prev_verdict' = verdict
    /\ verdict' = Tri(validate_civil_id_checksum(civil_id'))
    /\ UNCHANGED <<vlvars, ppvars, rkvars, dcvars, exvars>>

NextCk ==
    \/ Validate
    \/ \E i \in 1..12, d \in AsciiDigits : MutateDigit(i, d)

SpecCk == InitCk /\ [][NextCk]_vars

-----------------------------------------------------------------------------
(* Specification SpecDob: an identifier is written from a date, a leading  *)
(* digit and five more digits, then decoded (tests/test_validation.py).    *)

BornYears == {1900, 1999, 2000, 2003, 2026, 2027, 2099}
BornMonths == {0, 1, 2, 9, 11, 12, 13}
BornDays == {0, 1, 2, 16, 28, 29, 30, 31, 32}
LeadDigits == {1, 2, 3, 4}
Serials == { <<0,0,0,0,0>>, <<0,0,0,8,4>>, <<9,9,9,9,9>>, ArabicIndic(<<0,0,0,8,4>>) }

InitDob ==
    /\ IdleCk
    /\ IdlePipe
    /\ IdleRank
    /\ IdleEx
    /\ fields = NoFields
    /\ expected_name = None
    /\ expected_dob = None
    /\ lib_score = 0
    /\ validation = NoResult
    /\ vpc = "idle"
    /\ today \in TodayChoices
    /\ born \in BornYears \X BornMonths \X BornDays
    /\ lead \in LeadDigits
    /\ serial \in Serials
    /\ encoded = <<>>
    /\ decoded = None
    /\ dpc = "build"

\* the identifier text: leading digit, YYMMDD, five more digits
BuildId ==
    /\ dpc = "build"
    /\ encoded' = <<lead>> \o D2(born[1] % 100) \o D2(born[2]) \o D2(born[3]) \o serial
    /\ dpc' = "decode"
    /\ UNCHANGED <<born, lead, serial, decoded, ckvars, vlvars, ppvars, rkvars, exvars>>

\* self.assertEqual(extract_dob_from_civil_id(cid), date(...))
DecodeId ==
    /\ dpc = "decode"
    /\ decoded' = extract_dob_from_civil_id(encoded, today)
    /\ dpc' = "done"
    /\ UNCHANGED <<born, lead, serial, encoded, ckvars, vlvars, ppvars, rkvars, exvars>>

NextDob == BuildId \/ DecodeId

SpecDob == InitDob /\ [][NextDob]_vars

-----------------------------------------------------------------------------
(* extraction.py: text helpers and labels *)

\* str.lower and str.upper on the letters used
Lower(t) == [i \in 1..Len(t) |-> IF IsUpperChar(t[i]) THEN t[i] - 100 ELSE t[i]]
Upper(t) == [i \in 1..Len(t) |-> IF IsLowerChar(t[i]) THEN t[i] + 100 ELSE t[i]]

\* t[p:p+len(needle)] == needle, and needle in t
StartsAt(t, p, needle) ==
    p + Len(needle) - 1 <= Len(t) /\ SubSeq(t, p, p + Len(needle) - 1) = needle
Contains(needle, t) == \E p \in 1..Len(t) : StartsAt(t, p, needle)

\* any(label in text for label in labels)
ContainsAny(labels, t) == \E k \in 1..Len(labels) : Contains(labels[k], t)

\* str.strip()
RECURSIVE StripBlank(_)
StripBlank(t) ==
    IF t = <<>> THEN t
    ELSE IF IsSpaceChar(Head(t)) THEN StripBlank(Tail(t))
    ELSE IF IsSpaceChar(t[Len(t)]) THEN StripBlank(SubSeq(t, 1, Len(t) - 1))
    ELSE t

\* re.sub(r"\s+", "", text), re.sub(r"[^a-z]", "", text), re.sub(r"\D", "", text)
RemoveSpaces(t) == SelectSeq(t, LAMBDA c : ~IsSpaceChar(c))
OnlyLowerLetters(t) == SelectSeq(t, LAMBDA c : IsLowerChar(c))
OnlyDigits(t) == SelectSeq(t, LAMBDA c : IsDigitChar(c))

\* text.translate(_ARABIC_DIGITS): U+0660..U+0669 become '0'..'9', nothing else changes
normalize_digits(text) ==
    [i \in 1..Len(text) |-> IF text[i] \in 10..19 THEN text[i] - 10 ELSE text[i]]

_clean_line(text) == StripBlank(normalize_digits(text))

\* O, o -> 0; I, l, | -> 1; S -> 5
_normalize_for_digit_recovery(text) ==
    [i \in 1..Len(text) |->
        CASE text[i] \in {Ch.O, Ch.o} -> 0
          [] text[i] \in {Ch.I, Ch.l, Ch.pipe} -> 1
          [] text[i] = Ch.S -> 5
          [] OTHER -> text[i]]

_CIVIL_LABELS_EN ==
    << <<Ch.c, Ch.i, Ch.v, Ch.i, Ch.l, Ch.sp, Ch.i, Ch.d>>,
       <<Ch.c, Ch.i, Ch.v, Ch.i, Ch.l, Ch.i, Ch.d>>,
       <<Ch.i, Ch.d, Ch.sp, Ch.n, Ch.u, Ch.m, Ch.b, Ch.e, Ch.r>>,
       <<Ch.i, Ch.d, Ch.sp, Ch.n, Ch.o>>,
       <<Ch.c, Ch.i, Ch.v, Ch.i, Ch.l>> >>

_CIVIL_LABELS_AR ==
    << <<Ch.alef, Ch.lam, Ch.reh, Ch.qaf, Ch.meem, Ch.sp, Ch.alef, Ch.lam, Ch.meem, Ch.dal, Ch.noon, Ch.yeh>>,
       <<Ch.reh, Ch.qaf, Ch.meem, Ch.sp, Ch.meem, Ch.dal, Ch.noon, Ch.yeh>>,
       <<Ch.alef, Ch.lam, Ch.beh, Ch.tah, Ch.alef, Ch.qaf, Ch.tehm, Ch.sp, Ch.alef, Ch.lam, Ch.meem, Ch.dal, Ch.noon, Ch.yeh, Ch.tehm>> >>

_DOB_LABELS_EN ==
    << <<Ch.d, Ch.o, Ch.b>>,
       <<Ch.d, Ch.a, Ch.t, Ch.e, Ch.sp, Ch.o, Ch.f, Ch.sp, Ch.b, Ch.i, Ch.r, Ch.t, Ch.h>>,
       <<Ch.b, Ch.i, Ch.r, Ch.t, Ch.h, Ch.sp, Ch.d, Ch.a, Ch.t, Ch.e>>,
       <<Ch.b, Ch.i, Ch.r, Ch.t, Ch.h>> >>

_DOB_LABELS_AR ==
    << <<Ch.teh, Ch.alef, Ch.reh, Ch.yeh, Ch.khah, Ch.sp, Ch.alef, Ch.lam, Ch.meem, Ch.yeh, Ch.lam, Ch.alef, Ch.dal>>,
       <<Ch.meem, Ch.yeh, Ch.lam, Ch.alef, Ch.dal>> >>

_EXPIRY_LABELS_EN ==
    << <<Ch.e, Ch.x, Ch.p, Ch.i, Ch.r, Ch.y>>,
       <<Ch.e, Ch.x, Ch.p, Ch.i, Ch.r, Ch.y, Ch.sp, Ch.d, Ch.a, Ch.t, Ch.e>>,
       <<Ch.e, Ch.x, Ch.p, Ch.i, Ch.r, Ch.a, Ch.t, Ch.i, Ch.o, Ch.n>>,
       <<Ch.e, Ch.x, Ch.p, Ch.i, Ch.r, Ch.a, Ch.t, Ch.i, Ch.o, Ch.n, Ch.sp, Ch.d, Ch.a, Ch.t, Ch.e>>,
       <<Ch.e, Ch.x, Ch.p, Ch.sp, Ch.d, Ch.a, Ch.t, Ch.e>>,
       <<Ch.v, Ch.a, Ch.l, Ch.i, Ch.d, Ch.sp, Ch.u, Ch.n, Ch.t, Ch.i, Ch.l>> >>

_EXPIRY_LABELS_AR ==
    << <<Ch.teh, Ch.alef, Ch.reh, Ch.yeh, Ch.khah, Ch.sp, Ch.alef, Ch.lam, Ch.alef, Ch.noon, Ch.teh, Ch.heh, Ch.alef, Ch.hamza>>,
       <<Ch.alef, Ch.lam, Ch.alef, Ch.noon, Ch.teh, Ch.heh, Ch.alef, Ch.hamza>> >>

\* re.search(r"\bid(?:\s*no|\s*number|[:#])", lowered) matching at position i
IdLabelAt(t, i) ==
    /\ StartsAt(t, i, <<Ch.i, Ch.d>>)
    /\ (i = 1 \/ ~IsWordChar(t[i - 1]))
    /\ \/ (i + 2 <= Len(t) /\ t[i + 2] \in {Ch.colon, Ch.hash})
       \/ \E k \in 0..Len(t) :
             /\ \A j \in (i + 2)..(i + 1 + k) : j <= Len(t) /\ IsSpaceChar(t[j])
             /\ (StartsAt(t, i + 2 + k, <<Ch.n, Ch.o>>) \/ StartsAt(t, i + 2 + k, <<Ch.n, Ch.u, Ch.m, Ch.b, Ch.e, Ch.r>>))

_has_civil_label(line) ==
    LET lowered == Lower(line)
        compact == RemoveSpaces(lowered)
    IN  \/ ContainsAny(_CIVIL_LABELS_EN, lowered)
        \/ Contains(<<Ch.c, Ch.i, Ch.v, Ch.i, Ch.l, Ch.i, Ch.d>>, compact)
        \/ \E i \in 1..Len(lowered) : IdLabelAt(lowered, i)
        \/ ContainsAny(_CIVIL_LABELS_AR, line)

_has_dob_label(line) ==
    LET lowered == Lower(line)
        compact == OnlyLowerLetters(lowered)
    IN  \/ ContainsAny(_DOB_LABELS_EN, lowered)
        \/ Contains(<<Ch.d, Ch.a, Ch.t, Ch.e, Ch.o, Ch.f, Ch.b, Ch.i, Ch.r, Ch.t, Ch.h>>, compact)
        \/ Contains(<<Ch.b, Ch.i, Ch.r, Ch.t, Ch.h, Ch.d, Ch.a, Ch.t, Ch.e>>, compact)
        \/ Contains(<<Ch.d, Ch.o, Ch.b>>, compact)
        \/ ContainsAny(_DOB_LABELS_AR, line)

_has_expiry_label(line) ==
    LET lowered == Lower(line)
        compact == OnlyLowerLetters(lowered)
    IN  \/ ContainsAny(_EXPIRY_LABELS_EN, lowered)
        \/ Contains(<<Ch.e, Ch.x, Ch.p, Ch.i, Ch.r, Ch.y>>, compact)
        \/ Contains(<<Ch.e, Ch.x, Ch.p, Ch.i, Ch.r, Ch.a, Ch.t, Ch.i, Ch.o, Ch.n>>, compact)
        \/ Contains(<<Ch.v, Ch.a, Ch.l, Ch.i, Ch.d, Ch.u, Ch.n, Ch.t, Ch.i, Ch.l>>, compact)
        \/ Contains(<<Ch.v, Ch.a, Ch.l, Ch.i, Ch.d, Ch.t, Ch.i, Ch.l, Ch.l>>, compact)
        \/ (Contains(<<Ch.d, Ch.a, Ch.t, Ch.e>>, compact)
              /\ ContainsAny(<< <<Ch.e, Ch.x, Ch.p>>, <<Ch.p, Ch.i, Ch.y>>, <<Ch.i, Ch.r, Ch.y>>, <<Ch.p, Ch.i, Ch.r, Ch.y>> >>, compact))
        \/ ContainsAny(_EXPIRY_LABELS_AR, line)

\* _has_label_in_context(lines, idx, checker), with positions counted from 1
\* checker is the name of the function passed: "_has_dob_label" or "_has_expiry_label"
_has_label_in_context(lines, i, checker) ==
    LET check(line) == IF checker = "_has_dob_label" THEN _has_dob_label(line)
                       ELSE _has_expiry_label(line)
    IN  \/ check(lines[i])
        \/ (i > 1 /\ check(lines[i - 1] \o <<Ch.sp>> \o lines[i]))
        \/ (i + 1 <= Len(lines) /\ check(lines[i] \o <<Ch.sp>> \o lines[i + 1]))

-----------------------------------------------------------------------------
(* extraction.py: the identifier *)

\* re.fullmatch(r"\d{12}", text)
FullMatchD12(text) == Len(text) = 12 /\ \A i \in 1..12 : IsDigitChar(text[i])

_civil_checksum_valid(cid) ==
    IF ~FullMatchD12(cid) THEN FALSE
    ELSE LET total == WeightedSum(cid, 11)
             expected == 11 - (total % 11)
         IN  0 <= expected /\ expected <= 9 /\ expected = DigitVal(cid[12])

\* lines 127-146 without the test of line 144 (a date after today is kept)
_civil_id_to_dob_future_kept(cid, now) ==
    IF ~FullMatchD12(cid) THEN None
    ELSE IF cid[1] = 2 THEN date(1900 + IntOf(SubSeq(cid, 2, 3)), IntOf(SubSeq(cid, 4, 5)),
                                 IntOf(SubSeq(cid, 6, 7)))
    ELSE IF cid[1] = 3 THEN date(2000 + IntOf(SubSeq(cid, 2, 3)), IntOf(SubSeq(cid, 4, 5)),
                                 IntOf(SubSeq(cid, 6, 7)))
    ELSE None

_civil_id_to_dob(cid, now) ==
    IF ~FullMatchD12(cid) THEN None
    ELSE LET century == cid[1]
             yy == IntOf(SubSeq(cid, 2, 3))
             mm == IntOf(SubSeq(cid, 4, 5))
             dd == IntOf(SubSeq(cid, 6, 7))
         IN  IF century = 2 THEN
                 (LET parsed == date(1900 + yy, mm, dd)
                  IN  IF parsed = None THEN None
                      ELSE IF DateLess(now, parsed) THEN None ELSE parsed)
             ELSE IF century = 3 THEN
                 (LET parsed == date(2000 + yy, mm, dd)
                  IN  IF parsed = None THEN None
                      ELSE IF DateLess(now, parsed) THEN None ELSE parsed)
             ELSE None

\* 0 <= age <= 120
_dob_plausible(value, now) ==
    LET age == now[1] - value[1] - (IF MonthDayLess(now, value) THEN 1 ELSE 0)
    IN  0 <= age /\ age <= 120

\* _candidate_score in tenths (11.0 -> 110, 0.8 -> 8).  The float sums the code can form
\* for the candidates of one scoreboard order and tie exactly as these integers do.
_candidate_score_checksum_blind(cid, line, labeled_context, from_window, now) ==
    LET cid_dob == _civil_id_to_dob(cid, now)
    IN  (IF labeled_context THEN 110 ELSE 0)
        + (IF _has_civil_label(line) THEN 80 ELSE 0)
        + (IF ~from_window THEN 8 ELSE 0)
        + (IF cid[1] \in {2, 3} THEN 10 ELSE 0)
        + (IF cid_dob # None THEN 20 + (IF _dob_plausible(cid_dob, now) THEN 20 ELSE 0) ELSE 0)

_candidate_score(cid, line, labeled_context, from_window, now) ==
    LET cid_dob == _civil_id_to_dob(cid, now)
    IN  (IF labeled_context THEN 110 ELSE 0)
        + (IF _has_civil_label(line) THEN 80 ELSE 0)
        + (IF ~from_window THEN 8 ELSE 0)
        + (IF cid[1] \in {2, 3} THEN 10 ELSE 0)
        + (IF cid_dob # None THEN 20 + (IF _dob_plausible(cid_dob, now) THEN 20 ELSE 0) ELSE 0)
        + (IF _civil_checksum_valid(cid) THEN 70 ELSE -20)

\* A scoreboard is the dict in insertion order: a sequence of [id, score].  The pushes of one
\* pass are listed in the order the loops make them; _push_candidate keeps, for every
\* candidate, the place of its first push and the highest score pushed for it.

\* what _push_candidate_with_bonus offers to the scoreboard: nothing for a candidate that is
\* not 12 digits, otherwise the candidate with its score
_push_candidate_with_bonus(candidate, line, labeled_context, from_window, bonus, now) ==
    IF ~FullMatchD12(candidate) THEN <<>>
    ELSE << [id |-> candidate,
             score |-> _candidate_score(candidate, line, labeled_context, from_window, now)
                       + bonus] >>

_push_candidate(candidate, line, labeled_context, from_window, now) ==
    IF ~FullMatchD12(candidate) THEN <<>>
    ELSE << [id |-> candidate,
             score |-> _candidate_score(candidate, line, labeled_context, from_window, now)] >>

\* current = scoreboard.get(candidate); if current is None or score > current: ...
ScoreboardOf(pushes) ==
    LET firsts == {k \in 1..Len(pushes) : \A j \in 1..(k - 1) : pushes[j].id # pushes[k].id}
        nth(n) == CHOOSE k \in firsts : Cardinality({j \in firsts : j <= k}) = n
        best(id) == LET scores == {pushes[k].score : k \in {j \in 1..Len(pushes) : pushes[j].id = id}}
                    IN  CHOOSE x \in scores : \A y \in scores : y <= x
    IN  [n \in 1..Cardinality(firsts) |-> [id |-> pushes[nth(n)].id, score |-> best(pushes[nth(n)].id)]]

\* max(scoreboard.items(), key=lambda item: item[1])[0]: the first entry of highest score
BestOf(scoreboard) ==
    LET k == CHOOSE i \in 1..Len(scoreboard) :
                 /\ \A j \in 1..Len(scoreboard) : scoreboard[j].score <= scoreboard[i].score
                 /\ \A j \in 1..(i - 1) : scoreboard[j].score < scoreboard[i].score
    IN  scoreboard[k].id

\* re.findall(r"\d+", text): the maximal digit runs of text, left to right
DigitRuns(text) ==
    LET starts == {p \in 1..Len(text) :
                      IsDigitChar(text[p]) /\ (p = 1 \/ ~IsDigitChar(text[p - 1]))}
        nth(n) == CHOOSE p \in starts : Cardinality({q \in starts : q <= p}) = n
        stop(p) == CHOOSE e \in p..Len(text) :
                      /\ \A i \in p..e : IsDigitChar(text[i])
                      /\ (e = Len(text) \/ ~IsDigitChar(text[e + 1]))
    IN  [n \in 1..Cardinality(starts) |-> SubSeq(text, nth(n), stop(nth(n)))]

\* seq[i : i + 12] for i in range(0, len(seq) - 11)
Windows(seq, from_window) ==
    [i \in 1..(Len(seq) - 11) |-> [id |-> SubSeq(seq, i, i + 11), from_window |-> from_window]]

RECURSIVE Flatten(_)
Flatten(ss) == IF ss = <<>> THEN <<>> ELSE Head(ss) \o Flatten(Tail(ss))

_collect_line_candidates(line) ==
    LET normalized == _normalize_for_digit_recovery(normalize_digits(line))
        runs == DigitRuns(normalized)
        \* _CIVIL_RE.findall: the runs of exactly 12 digits
        exact == SelectSeq(runs, LAMBDA r : Len(r) = 12)
        \* re.findall(r"\d{12,}"): the runs of 12 digits or more
        long == SelectSeq(runs, LAMBDA r : Len(r) >= 12)
    IN  [k \in 1..Len(exact) |-> [id |-> exact[k], from_window |-> FALSE]]
        \o Flatten([k \in 1..Len(long) |-> Windows(long[k], Len(long[k]) # 12)])

\* lines 285-305: the pushes for one line lines[j] near a label
LabeledLine(line, now) ==
    LET normalized == _normalize_for_digit_recovery(normalize_digits(line))
        cs == _collect_line_candidates(normalized)
        \* re.findall(r"\d{13,}", normalized): seq[-12:]
        long == SelectSeq(DigitRuns(normalized), LAMBDA r : Len(r) >= 13)
    IN  Flatten([k \in 1..Len(cs) |->
                    _push_candidate_with_bonus(cs[k].id, line, TRUE, cs[k].from_window, 20, now)])
        \o Flatten([k \in 1..Len(long) |->
                    _push_candidate_with_bonus(SubSeq(long[k], Len(long[k]) - 11, Len(long[k])),
                                               line, TRUE, TRUE, 75, now)])

\* lines 280-305: the pushes of the first pass
LabeledPass(lines, now) ==
    Flatten([i \in 1..Len(lines) |->
                IF ~_has_civil_label(lines[i]) THEN <<>>
                ELSE Flatten([k \in 1..(Min(i + 2, Len(lines)) - i + 1) |->
                                 LabeledLine(lines[i + k - 1], now)])])

\* the pushes for the candidates of one line, with or without labeled_context
LineCandidates(line, labeled_context, now) ==
    LET cs == _collect_line_candidates(line)
    IN  Flatten([k \in 1..Len(cs) |->
                    _push_candidate(cs[k].id, line, labeled_context, cs[k].from_window, now)])

\* lines 313-332: the pushes for every line on its own
LinePass(lines, now) ==
    Flatten([i \in 1..Len(lines) |->
                LineCandidates(lines[i], FALSE, now)
                \o (IF ~_has_civil_label(lines[i]) THEN <<>>
                    ELSE Flatten([k \in 1..(Min(i + 2, Len(lines)) - i + 1) |->
                                     LineCandidates(lines[i + k - 1], TRUE, now)]))])

\* re.sub(r"\D", "", _normalize_for_digit_recovery(lines[j]))
Segment(line) == OnlyDigits(_normalize_for_digit_recovery(line))

ChunkOfLine_three_lines(lines, i, now) ==
    LET last == Min(i + 2, Len(lines))
        reached == {j \in i..last : \A m \in i..j : Segment(lines[m]) # <<>>}
        chunk(j) == Flatten([k \in 1..(j - i + 1) |-> Segment(lines[i + k - 1])])
        has_label == _has_civil_label(lines[i])
        pushes(j) == IF j \notin reached \/ Len(chunk(j)) < 12 THEN <<>>
                     ELSE LET ws == Windows(chunk(j), TRUE)
                          IN  Flatten([k \in 1..Len(ws) |->
                                          _push_candidate(ws[k].id, lines[i], has_label, TRUE, now)])
    IN  Flatten([k \in 1..(last - i + 1) |-> pushes(i + k - 1)])

\* lines 336-353: the pushes for the chunk that starts at line i.  The inner loop runs over
\* lines i .. min(i + 3, len) and breaks at the first line without digits.
ChunkOfLine(lines, i, now) ==
    LET last == Min(i + 3, Len(lines))
        reached == {j \in i..last : \A m \in i..j : Segment(lines[m]) # <<>>}
        chunk(j) == Flatten([k \in 1..(j - i + 1) |-> Segment(lines[i + k - 1])])
        has_label == _has_civil_label(lines[i])
        pushes(j) == IF j \notin reached \/ Len(chunk(j)) < 12 THEN <<>>
                     ELSE LET ws == Windows(chunk(j), TRUE)
                          IN  Flatten([k \in 1..Len(ws) |->
                                          _push_candidate(ws[k].id, lines[i], has_label, TRUE, now)])
    IN  Flatten([k \in 1..(last - i + 1) |-> pushes(i + k - 1)])

\* lines 335-353: digits split across consecutive lines
ChunkPass(lines, now) == Flatten([i \in 1..Len(lines) |-> ChunkOfLine(lines, i, now)])

UnlabeledScoreboard(lines, now) == ScoreboardOf(LinePass(lines, now) \o ChunkPass(lines, now))

_pick_civil_id_labels_not_first(lines, now) ==
    IF lines = <<>> THEN None
    ELSE LET scoreboard == ScoreboardOf(LabeledPass(lines, now) \o LinePass(lines, now)
                                        \o ChunkPass(lines, now))
         IN  IF scoreboard = <<>> THEN None ELSE BestOf(scoreboard)

_pick_civil_id(lines, now) ==
    IF lines = <<>> THEN None
    ELSE LET labeled_scoreboard == ScoreboardOf(LabeledPass(lines, now))
         IN  IF labeled_scoreboard # <<>> THEN BestOf(labeled_scoreboard)
             ELSE LET scoreboard == UnlabeledScoreboard(lines, now)
                  IN  IF scoreboard = <<>> THEN None ELSE BestOf(scoreboard)

-----------------------------------------------------------------------------
(* extraction.py: dates *)

\* lines 79-80: a two-digit year is pivoted on the current year
PivotYear(year, now) ==
    IF year < 100 THEN (IF year <= now[1] % 100 THEN 2000 + year ELSE 1900 + year) ELSE year

\* lines 87-90 and 113-116: a date after today is returned only with allow_future
UnlessFuture(parsed, allow_future, now) ==
    IF parsed = None THEN None
    ELSE IF ~allow_future /\ DateLess(now, parsed) THEN None
    ELSE parsed

\* lines 81-90 and 107-116: the bounds on the year, date(year, month, day), the future check
DateInRange(year, month, day, allow_future, now) ==
    IF year < 1900 \/ year > (IF allow_future THEN now[1] + 30 ELSE now[1]) THEN None
    ELSE UnlessFuture(date(year, month, day), allow_future, now)

\* _parse_date(day_s, month_s, year_s, allow_future=...)
_parse_date(day_s, month_s, year_s, allow_future, now) ==
    DateInRange(PivotYear(IntOf(year_s), now), IntOf(month_s), IntOf(day_s), allow_future, now)

\* lines 104-106: pivot near the current year
PivotYY(yy, now) == IF yy <= (now[1] % 100) + 15 THEN 2000 + yy ELSE 1900 + yy

\* _parse_yymmdd(token, allow_future=...)
_parse_yymmdd(token, allow_future, now) ==
    IF ~(Len(token) = 6 /\ \A i \in 1..6 : IsDigitChar(token[i])) THEN None
    ELSE DateInRange(PivotYY(IntOf(SubSeq(token, 1, 2)), now), IntOf(SubSeq(token, 3, 4)),
                     IntOf(SubSeq(token, 5, 6)), allow_future, now)

\* [\/\-.]
IsDateSep(c) == c \in {Ch.slash, Ch.dash, Ch.dot}

\* text[p : p + n] is n digits
DigitsAt(text, p, n) == p + n - 1 <= Len(text) /\ \A i \in p..(p + n - 1) : IsDigitChar(text[i])

\* the ways _DATE_RE = \b(\d{1,2})[\/\-.](\d{1,2})[\/\-.](\d{2,4})\b matches at position p:
\* the lengths <<day, month, year>> of its three groups
DateShapesAt(text, p) ==
    { sh \in (1..2) \X (1..2) \X (2..4) :
        /\ (p = 1 \/ ~IsWordChar(text[p - 1]))
        /\ DigitsAt(text, p, sh[1])
        /\ p + sh[1] <= Len(text) /\ IsDateSep(text[p + sh[1]])
        /\ DigitsAt(text, p + sh[1] + 1, sh[2])
        /\ p + sh[1] + sh[2] + 1 <= Len(text) /\ IsDateSep(text[p + sh[1] + sh[2] + 1])
        /\ DigitsAt(text, p + sh[1] + sh[2] + 2, sh[3])
        /\ \/ p + sh[1] + sh[2] + sh[3] + 1 = Len(text)
           \/ ~IsWordChar(text[p + sh[1] + sh[2] + sh[3] + 2]) }

\* the match the regex engine takes: greedy groups, the first group first
GreedyShape(shapes) ==
    CHOOSE sh \in shapes :
        \A other \in shapes :
            other[1] * 100 + other[2] * 10 + other[3] <= sh[1] * 100 + sh[2] * 10 + sh[3]

DateShapeAt(text, p) == GreedyShape(DateShapesAt(text, p))

\* match.groups(), match.group(0) and match.end() of the match of shape sh at position q
DateMatchAt(text, q, sh) ==
    [day_s   |-> SubSeq(text, q, q + sh[1] - 1),
     month_s |-> SubSeq(text, q + sh[1] + 1, q + sh[1] + sh[2]),
     year_s  |-> SubSeq(text, q + sh[1] + sh[2] + 2, q + sh[1] + sh[2] + sh[3] + 1),
     raw     |-> SubSeq(text, q, q + sh[1] + sh[2] + sh[3] + 1),
     stop    |-> q + sh[1] + sh[2] + sh[3] + 1]

SetMin(S) == CHOOSE h \in S : \A g \in S : h <= g

\* _DATE_RE.finditer(text) from position p on
RECURSIVE DateMatchesFrom(_, _)

\* a match and the matches after its end
DateMatchesAfter(text, first) == <<first>> \o DateMatchesFrom(text, first.stop + 1)

\* hits: the positions at which the pattern matches
DateMatchesAmong(text, hits) ==
    IF hits = {} THEN <<>>
    ELSE DateMatchesAfter(text, DateMatchAt(text, SetMin(hits), DateShapeAt(text, SetMin(hits))))

DateMatchesFrom(text, p) ==
    DateMatchesAmong(text, {q \in p..Len(text) : DateShapesAt(text, q) # {}})

\* _DATE_COMPACT_RE.finditer(compact) on a text of digits only: (?<!\d)(\d{2})(\d{2})(\d{4})(?!\d)
\* matches when the text is exactly eight digits long
CompactMatches(compact) ==
    IF Len(compact) = 8
    THEN << [day_s   |-> SubSeq(compact, 1, 2),
             month_s |-> SubSeq(compact, 3, 4),
             year_s  |-> SubSeq(compact, 5, 8),
             raw     |-> compact,
             stop    |-> 8] >>
    ELSE <<>>

\* lines 365-368: the four label signals of line i
LineLabels(lines, i) ==
    [direct_dob_label    |-> _has_dob_label(normalize_digits(lines[i])),
     direct_expiry_label |-> _has_expiry_label(normalize_digits(lines[i])),
     has_dob_label       |-> _has_label_in_context(lines, i, "_has_dob_label"),
     has_expiry_label    |-> _has_label_in_context(lines, i, "_has_expiry_label")]

\* lines 370 and 387-389: the matches of both patterns on a line
LineMatches(line, labels) ==
    DateMatchesFrom(line, 1)
    \o (IF labels.has_dob_label \/ labels.has_expiry_label
        THEN CompactMatches(OnlyDigits(line)) ELSE <<>>)

\* lines 371-384: the _DateCandidate of a match; line_index counts from 0
DateCandidateOf(match, i, labels, now) ==
    [value |-> _parse_date(match.day_s, match.month_s, match.year_s, TRUE, now),
     line_index |-> i - 1,
     has_dob_label |-> labels.has_dob_label,
     has_expiry_label |-> labels.has_expiry_label,
     direct_dob_label |-> labels.direct_dob_label,
     direct_expiry_label |-> labels.direct_expiry_label,
     raw_text |-> match.raw]

\* if dt: out.append(...)
ParsedCandidates(matches, i, labels, now) ==
    SelectSeq([k \in 1..Len(matches) |-> DateCandidateOf(matches[k], i, labels, now)],
              LAMBDA c : c.value # None)

\* the _DateCandidate of every match of line i that parses
DateCandidatesOfLine(lines, i, now) ==
    ParsedCandidates(LineMatches(normalize_digits(lines[i]), LineLabels(lines, i)), i,
                     LineLabels(lines, i), now)

_collect_date_candidates(lines, now) ==
    Flatten([i \in 1..Len(lines) |-> DateCandidatesOfLine(lines, i, now)])

\* dob_line_index = None
NoLine == -1

LatestOf(values) == CHOOSE v \in values : \A u \in values : u = v \/ DateLess(u, v)

\* the latest of a non-empty sequence of candidates: max(pool, key=(value, line_index)).value
MaxValue(pool) == LatestOf({pool[k].value : k \in 1..Len(pool)})

\* chosen = pool[0]; dob_date, dob_line_index = chosen.value, chosen.line_index
Chosen(pool) == [date |-> pool[1].value, line_index |-> pool[1].line_index]

\* lines 421-436: pools holds, in order, the lists that are not empty
DobFromText(pools) ==
    IF pools = <<>> THEN [date |-> None, line_index |-> NoLine] ELSE Chosen(pools[1])

\* lines 415-419: the identifier's date and the line of the first candidate equal to it
DobFromIdentifier(cid_dob, same) ==
    [date |-> cid_dob, line_index |-> IF same = <<>> THEN NoLine ELSE same[1].line_index]

DobChoice(candidates, cid_dob, now) ==
    IF cid_dob # None
    THEN DobFromIdentifier(cid_dob, SelectSeq(candidates, LAMBDA c : c.value = cid_dob))
    ELSE DobFromText(
             SelectSeq(<< SelectSeq(candidates, LAMBDA c : /\ c.direct_dob_label
                                                           /\ _dob_plausible(c.value, now)),
                          SelectSeq(candidates, LAMBDA c : /\ c.has_dob_label
                                                           /\ _dob_plausible(c.value, now)),
                          SelectSeq(candidates, LAMBDA c : _dob_plausible(c.value, now)) >>,
                       LAMBDA pool : pool # <<>>))

\* lines 413-436: the birth date and the line it was read on
ResolveDob_first_date_anywhere(candidates, cid, now) ==
    IF candidates # <<>>
    THEN [date |-> candidates[1].value, line_index |-> candidates[1].line_index]
    ELSE [date |-> None, line_index |-> NoLine]

ResolveDob(candidates, cid, now) ==
    DobChoice(candidates, IF Truthy(cid) THEN _civil_id_to_dob(cid, now) ELSE None, now)

\* the first list that is not empty; the last one never is
FirstNonEmpty(pools) == SelectSeq(pools, LAMBDA pool : pool # <<>>)[1]

\* lines 438-449
pick_expiry_value_first_of_pool(pool, dob_date) ==
    IF pool = <<>> THEN None ELSE pool[1].value

pick_expiry_value(pool, dob_date) ==
    IF pool = <<>> THEN None
    ELSE MaxValue(FirstNonEmpty(
             << IF dob_date = None THEN <<>>
                ELSE SelectSeq(pool, LAMBDA c : DateLess(dob_date, c.value)),
                IF dob_date = None THEN <<>>
                ELSE SelectSeq(pool, LAMBDA c : c.value # dob_date),
                pool >>))

\* the first pick that is a date, else the fallback
FirstDateOr(picks, fallback) ==
    IF \A k \in 1..Len(picks) : picks[k] = None THEN fallback
    ELSE picks[SetMin({k \in 1..Len(picks) : picks[k] # None})]

\* lines 451-471: the expiry date read from the date candidates
ResolveExpiry(candidates, dob) ==
    FirstDateOr(
        << pick_expiry_value(SelectSeq(candidates, LAMBDA c : c.direct_expiry_label), dob.date),
           pick_expiry_value(SelectSeq(candidates, LAMBDA c : c.has_expiry_label), dob.date),
           IF dob.date = None THEN None
           ELSE pick_expiry_value(
                    SelectSeq(candidates,
                              LAMBDA c : /\ DateLess(dob.date, c.value)
                                         /\ (dob.line_index = NoLine
                                               \/ c.line_index >= dob.line_index)),
                    dob.date),
           IF dob.date = None THEN None
           ELSE pick_expiry_value(SelectSeq(candidates, LAMBDA c : DateLess(dob.date, c.value)),
                                  dob.date) >>,
        IF candidates # <<>> THEN MaxValue(candidates) ELSE None)

\* [A-Z] and [0-9] of _MRZ_DATE_PAIR_RE: ASCII only
MrzPairAt(text, p) ==
    /\ p + 13 <= Len(text)
    /\ IsUpperChar(text[p]) /\ IsUpperChar(text[p + 7])
    /\ \A i \in (p + 1)..(p + 6) : text[i] \in AsciiDigits
    /\ \A i \in (p + 8)..(p + 13) : text[i] \in AsciiDigits

\* _MRZ_DATE_PAIR_RE.findall(text) from position p on: pairs <<dob6, exp6>>
RECURSIVE MrzPairsFrom(_, _)

\* the pair matched at position q and the pairs after it
MrzPairsAfter(text, q) ==
    << <<SubSeq(text, q + 1, q + 6), SubSeq(text, q + 8, q + 13)>> >>
    \o MrzPairsFrom(text, q + 14)

MrzPairsAmong(text, hits) == IF hits = {} THEN <<>> ELSE MrzPairsAfter(text, SetMin(hits))

MrzPairsFrom(text, p) == MrzPairsAmong(text, {q \in p..Len(text) : MrzPairAt(text, q)})

\* lines 480-482; st = [dob, line_index, expiry]
MrzDob(st, mrz_dob, now) ==
    IF st.dob = None /\ mrz_dob # None /\ _dob_plausible(mrz_dob, now)
    THEN [st EXCEPT !.dob = mrz_dob, !.line_index = 0]
    ELSE st

\* lines 477-487: the pairs of one line, from pair k on
RECURSIVE MrzPairsFold(_, _, _, _)

\* lines 484-486
MrzExpiry(pairs, k, st, mrz_exp, now) ==
    IF mrz_exp # None /\ (st.dob = None \/ DateLess(st.dob, mrz_exp))
    THEN [st EXCEPT !.expiry = mrz_exp]
    ELSE MrzPairsFold(pairs, k + 1, st, now)

MrzPairsFold(pairs, k, st, now) ==
    IF k > Len(pairs) THEN st
    ELSE MrzExpiry(pairs, k, MrzDob(st, _parse_yymmdd(pairs[k][1], FALSE, now), now),
                   _parse_yymmdd(pairs[k][2], TRUE, now), now)

\* lines 475-489: the lines from line i on, until an expiry date is found
RECURSIVE MrzFallback(_, _, _, _)
MrzFallback(lines, i, st, now) ==
    IF i > Len(lines) \/ st.expiry # None THEN st
    ELSE MrzFallback(
             lines, i + 1,
             MrzPairsFold(
                 MrzPairsFrom(Upper(_normalize_for_digit_recovery(normalize_digits(lines[i]))), 1),
                 1, st, now),
             now)

\* line 473 as "if no birth date was resolved"
ResolveAfterExpiry_when_no_birth_date(lines, st, now) ==
    IF st.dob = None THEN MrzFallback(lines, 1, [st EXCEPT !.expiry = None], now) ELSE st

\* line 473: if expiry_date is None
ResolveAfterExpiry(lines, st, now) ==
    IF st.expiry = None THEN MrzFallback(lines, 1, st, now) ELSE st

\* lines 451-471
ResolveAfterDob(lines, candidates, dob, now) ==
    ResolveAfterExpiry(lines,
                       [dob |-> dob.date, line_index |-> dob.line_index,
                        expiry |-> ResolveExpiry(candidates, dob)],
                       now)

\* lines 410-436
ResolveAmong(lines, candidates, cid, now) ==
    ResolveAfterDob(lines, candidates, ResolveDob(candidates, cid, now), now)

\* the dates _pick_dob_and_expiry settles on: [dob, line_index, expiry]
ResolveDates(lines, cid, now) ==
    ResolveAmong(lines, _collect_date_candidates(lines, now), cid, now)

\* lines 491-493
FormatDates(st) ==
    [birth_out  |-> IF st.dob # None THEN _format_date_output(st.dob) ELSE None,
     expiry_out |-> IF st.expiry # None THEN _format_date_output(st.expiry) ELSE None]

_pick_dob_and_expiry(lines, cid, now) == FormatDates(ResolveDates(lines, cid, now))

-----------------------------------------------------------------------------
(* Specification SpecCopies: the identifier functions of extraction.py and *)
(* of validation.py applied to the same text: identifiers written as in    *)
(* SpecDob, and texts that are no identifier.                              *)

CopyBorn == {1999, 2003, 2027} \X {2, 9, 13} \X {16, 29, 30}

\* ways an identifier text is damaged: a character lost or added, a digit turned into its
\* Arabic-Indic or Persian form, into a letter or a blank, another check digit
Damages == {"short", "long", "arabic_lead", "persian_lead", "persian_all", "letter", "blank",
            "check_digit", "empty"}

Damaged(t, kind) ==
    CASE kind = "short" -> SubSeq(t, 1, 11)
      [] kind = "long" -> t \o <<0>>
      [] kind = "arabic_lead" -> <<t[1] + 10>> \o Tail(t)
      [] kind = "persian_lead" -> <<t[1] + 90>> \o Tail(t)
      [] kind = "persian_all" -> [i \in 1..Len(t) |-> (t[i] % 10) + 90]
      [] kind = "letter" -> [t EXCEPT ![12] = Ch.O]
      [] kind = "blank" -> [t EXCEPT ![2] = Ch.sp]
      [] kind = "check_digit" -> [t EXCEPT ![12] = ((t[12] % 10) + 1) % 10]
      [] OTHER -> <<>>

InitCopies ==
    /\ IdleCk
    /\ IdlePipe
    /\ IdleRank
    /\ IdleEx
    /\ fields = NoFields
    /\ expected_name = None
    /\ expected_dob = None
    /\ lib_score = 0
    /\ validation = NoResult
    /\ vpc = "idle"
    /\ today \in TodayChoices
    /\ born \in CopyBorn
    /\ lead \in LeadDigits
    /\ serial \in Serials
    /\ encoded = <<>>
    /\ decoded = None
    /\ dpc = "build"

\* the text is damaged before it is given to the functions
Damage(kind) ==
    /\ dpc = "decode"
    /\ encoded' = Damaged(encoded, kind)
    /\ dpc' = "damaged"
    /\ UNCHANGED <<born, lead, serial, decoded, ckvars, vlvars, ppvars, rkvars, exvars>>

\* both copies of the checksum test and of the decoding are applied to the text
ApplyCopies ==
    /\ dpc \in {"decode", "damaged"}
    /\ decoded' = [extraction_checksum |-> _civil_checksum_valid(encoded),
                   validation_checksum |-> validate_civil_id_checksum(encoded),
                   extraction_dob |-> _civil_id_to_dob(encoded, today),
                   validation_dob |-> extract_dob_from_civil_id(encoded, today)]
    /\ dpc' = "done"
    /\ UNCHANGED <<born, lead, serial, encoded, ckvars, vlvars, ppvars, rkvars, exvars>>

NextCopies == BuildId \/ (\E kind \in Damages : Damage(kind)) \/ ApplyCopies

SpecCopies == InitCopies /\ [][NextCopies]_vars

-----------------------------------------------------------------------------
(* extraction.py: names and the document hint *)

_NAME_LABELS_EN ==
    << <<Ch.n, Ch.a, Ch.m, Ch.e>>,
       <<Ch.f, Ch.u, Ch.l, Ch.l, Ch.sp, Ch.n, Ch.a, Ch.m, Ch.e>>,
       <<Ch.c, Ch.u, Ch.s, Ch.t, Ch.o, Ch.m, Ch.e, Ch.r, Ch.sp, Ch.n, Ch.a, Ch.m, Ch.e>>,
       <<Ch.a, Ch.c, Ch.c, Ch.o, Ch.u, Ch.n, Ch.t, Ch.sp, Ch.h, Ch.o, Ch.l, Ch.d, Ch.e, Ch.r>> >>

_NAME_LABELS_AR ==
    << <<Ch.alef, Ch.lam, Ch.alef, Ch.seen, Ch.meem>>,
       <<Ch.alef, Ch.lam, Ch.alef, Ch.seen, Ch.meem, Ch.sp, Ch.alef, Ch.lam, Ch.kaf, Ch.alef, Ch.meem, Ch.lam>>,
       <<Ch.alef, Ch.seen, Ch.meem, Ch.sp, Ch.alef, Ch.lam, Ch.ain, Ch.meem, Ch.yeh, Ch.lam>>,
       <<Ch.alef, Ch.seen, Ch.meem, Ch.sp, Ch.sad, Ch.alef, Ch.hah, Ch.beh, Ch.sp, Ch.alef, Ch.lam, Ch.hah, Ch.seen, Ch.alef, Ch.beh>> >>

\* sorted(_NAME_LABELS_EN, key=len, reverse=True)
NameLabelsLongestFirst ==
    << <<Ch.a, Ch.c, Ch.c, Ch.o, Ch.u, Ch.n, Ch.t, Ch.sp, Ch.h, Ch.o, Ch.l, Ch.d, Ch.e, Ch.r>>,
       <<Ch.c, Ch.u, Ch.s, Ch.t, Ch.o, Ch.m, Ch.e, Ch.r, Ch.sp, Ch.n, Ch.a, Ch.m, Ch.e>>,
       <<Ch.f, Ch.u, Ch.l, Ch.l, Ch.sp, Ch.n, Ch.a, Ch.m, Ch.e>>,
       <<Ch.n, Ch.a, Ch.m, Ch.e>> >>

\* line 536
has_name_label(line) ==
    ContainsAny(_NAME_LABELS_EN, Lower(line)) \/ ContainsAny(_NAME_LABELS_AR, line)

\* str.find, counted from 1
Find(t, needle) == SetMin({p \in 1..Len(t) : StartsAt(t, p, needle)})

\* lines 543-554: the text after the first occurrence of the longest English label found
\* (when none is found the re.sub calls of line 554 have nothing to remove)
AfterEnglishLabelAmong(line, hits) ==
    IF hits = {} THEN line
    ELSE SubSeq(line,
                Find(Lower(line), NameLabelsLongestFirst[SetMin(hits)])
                    + Len(NameLabelsLongestFirst[SetMin(hits)]),
                Len(line))

AfterEnglishLabel(line) ==
    AfterEnglishLabelAmong(
        line, {k \in 1..Len(NameLabelsLongestFirst) : Contains(NameLabelsLongestFirst[k], Lower(line))})

\* str.replace(needle, "")
RECURSIVE Replaced(_, _)
Replaced(t, needle) ==
    IF t = <<>> THEN <<>>
    ELSE IF StartsAt(t, 1, needle) THEN Replaced(SubSeq(t, Len(needle) + 1, Len(t)), needle)
    ELSE <<Head(t)>> \o Replaced(Tail(t), needle)

\* lines 555-556
WithoutArabicLabels(value) ==
    Replaced(Replaced(Replaced(Replaced(value, _NAME_LABELS_AR[1]), _NAME_LABELS_AR[2]),
                      _NAME_LABELS_AR[3]),
             _NAME_LABELS_AR[4])

\* value.strip(": -\t")
IsNameTrim(c) == c \in {Ch.colon, Ch.sp, Ch.dash}

RECURSIVE StripNameTrim(_)
StripNameTrim(t) ==
    IF t = <<>> THEN t
    ELSE IF IsNameTrim(Head(t)) THEN StripNameTrim(Tail(t))
    ELSE IF IsNameTrim(t[Len(t)]) THEN StripNameTrim(SubSeq(t, 1, Len(t) - 1))
    ELSE t

\* lines 517-520
clean_name_value(value) == StripBlank(CollapseSpaces(StripNameTrim(value)))

\* [part for part in re.split(r"\s+", value) if part]
Words(t) ==
    LET starts == {p \in 1..Len(t) : ~IsSpaceChar(t[p]) /\ (p = 1 \/ IsSpaceChar(t[p - 1]))}
        nth(n) == CHOOSE p \in starts : Cardinality({q \in starts : q <= p}) = n
        stop(p) == CHOOSE e \in p..Len(t) :
                      /\ \A i \in p..e : ~IsSpaceChar(t[i])
                      /\ (e = Len(t) \/ IsSpaceChar(t[e + 1]))
    IN  [n \in 1..Cardinality(starts) |-> SubSeq(t, nth(n), stop(nth(n)))]

\* [A-Za-z؀-ۿ]: the letters, and the digits U+0660..U+0669 and U+06F0..U+06F9
IsNameChar(c) ==
    IsLowerChar(c) \/ IsUpperChar(c) \/ IsArabicLetter(c) \/ c \in 10..19 \/ c \in 90..99

\* " ".join(tokens)
RECURSIVE JoinWords(_)
JoinWords(tokens) ==
    IF tokens = <<>> THEN <<>>
    ELSE IF Len(tokens) = 1 THEN tokens[1]
    ELSE tokens[1] \o <<Ch.sp>> \o JoinWords(Tail(tokens))

\* lines 528-531: the parts with everything but letters removed, empty ones dropped
CleanedParts(parts) ==
    SelectSeq([k \in 1..Len(parts) |-> SelectSeq(parts[k], LAMBDA c : IsNameChar(c))],
              LAMBDA token : token # <<>>)

\* lines 522-532 with the two-token test made after the filtering
clean_name_tokens_counted_after_filter(value) ==
    IF Len(CleanedParts(Words(value))) < 2 THEN <<>> ELSE JoinWords(CleanedParts(Words(value)))

\* lines 522-532
clean_name_tokens(value) ==
    IF Len(Words(value)) < 2 THEN <<>> ELSE JoinWords(CleanedParts(Words(value)))

NonNameTokens ==
    << <<Ch.b, Ch.i, Ch.r, Ch.t, Ch.h, Ch.d, Ch.a, Ch.t, Ch.e>>,
       <<Ch.d, Ch.a, Ch.t, Ch.e, Ch.o, Ch.f, Ch.b, Ch.i, Ch.r, Ch.t, Ch.h>>,
       <<Ch.d, Ch.o, Ch.b>>,
       <<Ch.e, Ch.x, Ch.p, Ch.i, Ch.r, Ch.y>>,
       <<Ch.e, Ch.x, Ch.p, Ch.i, Ch.r, Ch.a, Ch.t, Ch.i, Ch.o, Ch.n>>,
       <<Ch.c, Ch.i, Ch.v, Ch.i, Ch.l, Ch.i, Ch.d>>,
       <<Ch.c, Ch.i, Ch.v, Ch.i, Ch.l, Ch.n, Ch.u, Ch.m, Ch.b, Ch.e, Ch.r>>,
       <<Ch.i, Ch.d, Ch.n, Ch.u, Ch.m, Ch.b, Ch.e, Ch.r>>,
       <<Ch.s, Ch.e, Ch.r, Ch.i, Ch.a, Ch.l>> >>

\* lines 499-515
looks_like_non_name_label(value) == ContainsAny(NonNameTokens, OnlyLowerLetters(Lower(value)))

NameScoreTokens ==
    << <<Ch.b, Ch.i, Ch.r, Ch.t, Ch.h>>,
       <<Ch.d, Ch.o, Ch.b>>,
       <<Ch.e, Ch.x, Ch.p, Ch.i, Ch.r, Ch.y>>,
       <<Ch.e, Ch.x, Ch.p, Ch.i, Ch.r, Ch.a, Ch.t, Ch.i, Ch.o, Ch.n>>,
       <<Ch.c, Ch.i, Ch.v, Ch.i, Ch.l, Ch.sp, Ch.i, Ch.d>>,
       <<Ch.s, Ch.e, Ch.r, Ch.i, Ch.a, Ch.l>>,
       <<Ch.d, Ch.a, Ch.t, Ch.e>> >>

IsAlphaChar(c) == IsLowerChar(c) \/ IsUpperChar(c) \/ IsArabicLetter(c)

\* lines 580-591; the score is the fraction <<numerator, denominator>>:
\* alpha / len + min(alpha, 36) / 80 - digits / 10 over the denominator 80 * len
NameScoreOf(line, alpha, digits) ==
    IF alpha = 0 THEN <<-1, 1>>
    ELSE <<80 * alpha + Min(alpha, 36) * Len(line) - 8 * digits * Len(line), 80 * Len(line)>>

_name_score(line) ==
    IF Len(line) < 3 THEN <<-1, 1>>
    ELSE IF ContainsAny(NameScoreTokens, Lower(line)) THEN <<-1, 1>>
    ELSE NameScoreOf(line, Len(SelectSeq(line, LAMBDA c : IsAlphaChar(c))),
                     Len(SelectSeq(line, LAMBDA c : IsDigitChar(c))))

\* score > percent / 100, and score a > score b
ScoreAbove(score, percent) == score[1] * 100 > percent * score[2]
ScoreGreater(a, b) == a[1] * b[2] > b[1] * a[2]

\* lines 543-557: the value pass 1 reads on a line
FirstPassValue(line) ==
    IF has_name_label(line)
    THEN clean_name_tokens(clean_name_value(WithoutArabicLabels(AfterEnglishLabel(line))))
    ELSE <<>>

\* line 558
FirstPassAccepts(value) ==
    value # <<>> /\ ~looks_like_non_name_label(value) /\ ScoreAbove(_name_score(value), 60)

\* lines 538-559
FirstPass(lines) ==
    SelectSeq([i \in 1..Len(lines) |-> FirstPassValue(lines[i])],
              LAMBDA value : FirstPassAccepts(value))

\* lines 569-576: the first of the next two lines that reads as a name
NextLineValue(line) == clean_name_tokens(clean_name_value(line))

NextLineAccepts(nxt) ==
    ~has_name_label(nxt) /\ ~looks_like_non_name_label(nxt) /\ ScoreAbove(_name_score(nxt), 75)

NextLineAmong(lines, hits) ==
    IF hits = {} THEN <<>> ELSE << NextLineValue(lines[SetMin(hits)]) >>

NextLineName(lines, i) ==
    IF has_name_label(lines[i])
    THEN NextLineAmong(lines, {j \in (i + 1)..Min(i + 2, Len(lines)) :
                                  NextLineAccepts(NextLineValue(lines[j]))})
    ELSE <<>>

\* lines 564-576
SecondPass(lines) == Flatten([i \in 1..Len(lines) |-> NextLineName(lines, i)])

\* lines 496-577
FirstPassOr(lines, first) == IF first # <<>> THEN first ELSE SecondPass(lines)

_label_extract_name(lines) == FirstPassOr(lines, FirstPass(lines))

\* the place of line i in sorted(..., key=score, reverse=True), a stable sort
SortedPlace(lines, i) ==
    1 + Cardinality({j \in 1..Len(lines) :
                        \/ ScoreGreater(_name_score(lines[j]), _name_score(lines[i]))
                        \/ /\ _name_score(lines[j]) = _name_score(lines[i])
                           /\ j < i})

FirstThree(kept) == SubSeq(kept, 1, Min(3, Len(kept)))

\* lines 598-603
ThirdPass(lines) ==
    FirstThree(SelectSeq([k \in 1..Len(lines) |->
                             lines[CHOOSE i \in 1..Len(lines) : SortedPlace(lines, i) = k]],
                         LAMBDA line : ScoreAbove(_name_score(line), 55)))

\* lines 605-607
NameAndCandidates(candidates) ==
    IF candidates = <<>> THEN [name |-> None, candidates |-> <<>>]
    ELSE [name |-> candidates[1], candidates |-> candidates]

LabelledOr(lines, candidates) ==
    NameAndCandidates(IF candidates = <<>> THEN ThirdPass(lines) ELSE candidates)

\* lines 594-607
_pick_name(lines) == LabelledOr(lines, _label_extract_name(lines))

\* "\n".join(lines)
RECURSIVE JoinLines(_)
JoinLines(lines) ==
    IF lines = <<>> THEN <<>>
    ELSE IF Len(lines) = 1 THEN lines[1]
    ELSE lines[1] \o <<Ch.nl>> \o JoinLines(Tail(lines))

CivilHintLabels ==
    << <<Ch.c, Ch.i, Ch.v, Ch.i, Ch.l, Ch.sp, Ch.i, Ch.d>>,
       <<Ch.alef, Ch.lam, Ch.beh, Ch.tah, Ch.alef, Ch.qaf, Ch.tehm, Ch.sp, Ch.alef, Ch.lam, Ch.meem, Ch.dal, Ch.noon, Ch.yeh, Ch.tehm>>,
       <<Ch.beh, Ch.tah, Ch.alef, Ch.qaf, Ch.tehm, Ch.sp, Ch.meem, Ch.dal, Ch.noon, Ch.yeh, Ch.tehm>> >>

BankHintLabels ==
    << <<Ch.s, Ch.t, Ch.a, Ch.t, Ch.e, Ch.m, Ch.e, Ch.n, Ch.t>>,
       <<Ch.b, Ch.a, Ch.n, Ch.k>>,
       <<Ch.kaf, Ch.sheen, Ch.feh, Ch.sp, Ch.hah, Ch.seen, Ch.alef, Ch.beh>> >>

\* lines 610-620
_doc_hint(full_text) ==
    IF ContainsAny(CivilHintLabels, Lower(full_text)) THEN "civil_id"
    ELSE IF ContainsAny(BankHintLabels, Lower(full_text)) THEN "bank_statement"
    ELSE "None"

\* line 625
FullText(lines, texts) ==
    IF lines # <<>> THEN JoinLines(lines) ELSE _clean_line(JoinLines(texts))

-----------------------------------------------------------------------------
(* Specifications SpecExId and SpecExDates: extract_fields on documents of *)
(* a few OCR lines, as in tests/test_extraction.py.                        *)

\* OCR lines a document is made of
MaxDocLines == 3

IdLine ==
    [labeled_badsum |-> <<Ch.C, Ch.i, Ch.v, Ch.i, Ch.l, Ch.sp, Ch.I, Ch.D, Ch.sp, 2, 9, 9, 0, 4, 1, 2, 1, 2, 3, 4, 5>>,
     bare_valid |-> <<3, 0, 3, 0, 9, 1, 6, 0, 0, 0, 8, 4>>,
     weak_badsum |-> <<5, 1, 2, 3, 4, 5, 6, 7, 8, 9, 0, 1>>,
     bare_badsum |-> <<2, 9, 9, 0, 4, 1, 2, 1, 2, 3, 4, 5>>,
     serial |-> <<Ch.S, Ch.N, Ch.sp, 9, 9, 9, 9, 3, 0, 3, 0, 9, 1, 6, 0, 0, 0, 8, 4>>,
     label_only |-> <<Ch.C, Ch.i, Ch.v, Ch.i, Ch.l, Ch.sp, Ch.I, Ch.D>>,
     head7 |-> <<3, 0, 3, 0, 9, 1, 6>>,
     tail5 |-> <<0, 0, 0, 8, 4>>,
     noisy |-> <<Ch.I, Ch.sp, Ch.D, Ch.K, Ch.W, Ch.T, Ch.A, 3, 1, 5, 8, 2, 2, 3, 4, 8, 3, 0, 3, 0, 9, 1, 6, 0, 0, 0, 8, 4>>,
     name |-> <<Ch.N, Ch.a, Ch.m, Ch.e, Ch.sp, Ch.J, Ch.o, Ch.h, Ch.n>>,
     arabic |-> <<Ch.alef, Ch.lam, Ch.reh, Ch.qaf, Ch.meem, Ch.sp, Ch.alef, Ch.lam, Ch.meem, Ch.dal, Ch.noon, Ch.yeh, Ch.sp, 13, 10, 10, 10, 11, 10, 11, 12, 11, 12, 13, 14>>,
     persian |-> <<93, 90, 93, 90, 99, 91, 96, 90, 90, 90, 98, 94>>,
     glyphs |-> <<Ch.I, Ch.D, Ch.colon, Ch.sp, 3, Ch.l, 2, Ch.O, Ch.l, Ch.O, Ch.l, Ch.O, Ch.O, Ch.O, Ch.O, 8>>,
     mrz |-> <<Ch.D, 3, 0, 9, 1, 6, 1, Ch.M, 2, 2, 0, 9, 1, 6, 2, Ch.K, Ch.h, Ch.T, 1, 1, 8, 1, 0, 2, 5, 2, 7>>,
     mrz_dates |-> <<Ch.D, 0, 3, 0, 9, 1, 6, Ch.M, 2, 8, 0, 9, 1, 6>>,
     letters |-> <<Ch.A, Ch.l, Ch.o, Ch.n, Ch.A, Ch.I, Ch.z, Ch.I, Ch.A, Ch.h, Ch.m, Ch.E, Ch.d>>,
     d303 |-> <<3, 0, 3>>,
     d091 |-> <<0, 9, 1>>,
     d600 |-> <<6, 0, 0>>,
     d084 |-> <<0, 8, 4>>,
     d08 |-> <<0, 8>>,
     d4 |-> <<4>>,
     blank |-> <<Ch.sp>>]

DateLine ==
    [birth |-> <<Ch.B, Ch.i, Ch.r, Ch.t, Ch.h, Ch.sp, Ch.D, Ch.a, Ch.t, Ch.e, Ch.sp, 1, 6, Ch.slash, 0, 9, Ch.slash, 2, 0, 0, 3>>,
     birth_colon |-> <<Ch.B, Ch.i, Ch.r, Ch.t, Ch.h, Ch.sp, Ch.D, Ch.a, Ch.t, Ch.e, Ch.colon, Ch.sp, 1, 6, Ch.slash, 0, 9, Ch.slash, 2, 0, 0, 3>>,
     ex |-> <<Ch.e, Ch.x>>,
     piy_date |-> <<Ch.p, Ch.i, Ch.y, Ch.sp, Ch.D, Ch.a, Ch.t, Ch.e, Ch.sp, 1, 6, Ch.slash, 0, 9, Ch.slash, 2, 0, 2, 8>>,
     piy |-> <<Ch.p, Ch.i, Ch.y, Ch.sp, Ch.D, Ch.a, Ch.t, Ch.e>>,
     date_2028 |-> <<1, 6, Ch.slash, 0, 9, Ch.slash, 2, 0, 2, 8>>,
     dob_future |-> <<Ch.D, Ch.O, Ch.B, Ch.colon, Ch.sp, 0, 1, Ch.slash, 0, 1, Ch.slash, 2, 0, 3, 0>>,
     date_2000 |-> <<0, 1, Ch.slash, 0, 1, Ch.slash, 2, 0, 0, 0>>,
     dob_label |-> <<Ch.D, Ch.O, Ch.B>>,
     expiry_label |-> <<Ch.E, Ch.x, Ch.p, Ch.i, Ch.r, Ch.y, Ch.sp, Ch.D, Ch.a, Ch.t, Ch.e>>,
     civil |-> <<Ch.C, Ch.i, Ch.v, Ch.i, Ch.l, Ch.sp, Ch.I, Ch.D, Ch.sp, 3, 0, 3, 0, 9, 1, 6, 0, 0, 0, 8, 4>>,
     dob_2003 |-> <<Ch.D, Ch.O, Ch.B, Ch.colon, Ch.sp, 1, 6, Ch.slash, 0, 9, Ch.slash, 2, 0, 0, 3>>,
     expiry_2028 |-> <<Ch.E, Ch.x, Ch.p, Ch.i, Ch.r, Ch.y, Ch.sp, Ch.D, Ch.a, Ch.t, Ch.e, Ch.colon, Ch.sp, 1, 6, Ch.slash, 0, 9, Ch.slash, 2, 0, 2, 8>>,
     date_1999 |-> <<1, 2, Ch.dot, 0, 4, Ch.dot, 9, 9>>,
     name_label |-> <<Ch.N, Ch.a, Ch.m, Ch.e>>,
     full_name |-> <<Ch.A, Ch.H, Ch.M, Ch.E, Ch.D, Ch.sp, Ch.F, Ch.sp, Ch.A, Ch.sp, Ch.A, Ch.L, Ch.O, Ch.N, Ch.A, Ch.I, Ch.Z, Ch.I>>]

\* the documents of at most MaxDocLines lines over a menu of lines
Documents(menu) == UNION { [1..n -> menu] : n \in 1..MaxDocLines }

IdMenu ==
    { IdLine.labeled_badsum, IdLine.bare_valid, IdLine.label_only, IdLine.head7, IdLine.tail5,
      IdLine.name, IdLine.persian, IdLine.blank }

\* the documents of tests/test_extraction.py about the identifier, identifiers split
\* over four and over five lines, and a label more than two lines above an identifier
IdTestDocuments ==
    { << IdLine.noisy, IdLine.mrz, IdLine.letters >>,
      << IdLine.arabic >>,
      << IdLine.serial, IdLine.name >>,
      << IdLine.bare_badsum, IdLine.name, IdLine.noisy >>,
      << IdLine.glyphs >>,
      << IdLine.labeled_badsum, IdLine.name, IdLine.name, IdLine.bare_valid >>,
      << IdLine.label_only, IdLine.weak_badsum, IdLine.name, IdLine.name, IdLine.bare_valid >>,
      << IdLine.d303, IdLine.d091, IdLine.d600, IdLine.d084 >>,
      << IdLine.d303, IdLine.d091, IdLine.d600, IdLine.d08, IdLine.d4 >>,
      << IdLine.label_only, IdLine.name, IdLine.name, IdLine.bare_valid >> }

DateMenu ==
    { DateLine.birth, DateLine.piy, DateLine.piy_date, DateLine.date_2028,
      DateLine.dob_future, DateLine.date_2000, DateLine.dob_label, DateLine.civil }

DateTestDocuments ==
    { << DateLine.birth_colon, DateLine.ex, DateLine.piy_date, DateLine.name_label,
         DateLine.full_name >>,
      << DateLine.birth, DateLine.ex, DateLine.piy, DateLine.date_2028 >>,
      << DateLine.birth, DateLine.ex, DateLine.piy_date >>,
      << DateLine.civil, DateLine.dob_2003, DateLine.expiry_2028 >>,
      << DateLine.birth, DateLine.expiry_label, DateLine.date_2028 >>,
      << DateLine.dob_label, DateLine.date_1999 >>,
      << IdLine.noisy, IdLine.mrz, IdLine.letters >>,
      << IdLine.mrz_dates >>,
      << DateLine.date_2028, IdLine.mrz >> }

NameLine ==
    [labelled |-> <<Ch.N, Ch.a, Ch.m, Ch.e, Ch.colon, Ch.sp, Ch.A, Ch.H, Ch.M, Ch.E, Ch.D, Ch.sp, Ch.F, Ch.sp, Ch.A, Ch.sp, Ch.A, Ch.L, Ch.O, Ch.N, Ch.A, Ch.I, Ch.Z, Ch.I>>,
     label_only |-> <<Ch.N, Ch.a, Ch.m, Ch.e>>,
     bare |-> <<Ch.A, Ch.H, Ch.M, Ch.E, Ch.D, Ch.sp, Ch.F, Ch.sp, Ch.A, Ch.sp, Ch.A, Ch.L, Ch.O, Ch.N, Ch.A, Ch.I, Ch.Z, Ch.I>>,
     one_word |-> <<Ch.N, Ch.a, Ch.m, Ch.e, Ch.colon, Ch.sp, Ch.A, Ch.H, Ch.M, Ch.E, Ch.D, Ch.sp, 1, 2, 3>>,
     full_label |-> <<Ch.F, Ch.u, Ch.l, Ch.l, Ch.sp, Ch.N, Ch.a, Ch.m, Ch.e, Ch.colon, Ch.sp, Ch.J, Ch.O, Ch.H, Ch.N, Ch.sp, Ch.D, Ch.O, Ch.E>>,
     non_name |-> <<Ch.N, Ch.a, Ch.m, Ch.e, Ch.colon, Ch.sp, Ch.E, Ch.x, Ch.p, Ch.i, Ch.r, Ch.y, Ch.sp, Ch.D, Ch.a, Ch.t, Ch.e>>,
     short |-> <<Ch.N, Ch.a, Ch.m, Ch.e, Ch.colon, Ch.sp, Ch.a, Ch.b, Ch.sp, 1>>,
     arabic |-> <<Ch.alef, Ch.lam, Ch.alef, Ch.seen, Ch.meem, Ch.colon, Ch.sp, Ch.alef, Ch.hah, Ch.meem, Ch.dal, Ch.sp, Ch.ain, Ch.lam, Ch.yeh>>,
     holder |-> <<Ch.A, Ch.c, Ch.c, Ch.o, Ch.u, Ch.n, Ch.t, Ch.sp, Ch.H, Ch.o, Ch.l, Ch.d, Ch.e, Ch.r, Ch.sp, Ch.dash, Ch.sp, Ch.J, Ch.a, Ch.n, Ch.e, Ch.sp, Ch.R, Ch.o, Ch.e, Ch.sp, 7>>,
     civil |-> <<Ch.C, Ch.i, Ch.v, Ch.i, Ch.l, Ch.sp, Ch.I, Ch.D, Ch.sp, 3, 0, 3, 0, 9, 1, 6, 0, 0, 0, 8, 4>>,
     bank |-> <<Ch.B, Ch.a, Ch.n, Ch.k, Ch.sp, Ch.S, Ch.t, Ch.a, Ch.t, Ch.e, Ch.m, Ch.e, Ch.n, Ch.t>>,
     birth |-> <<Ch.B, Ch.i, Ch.r, Ch.t, Ch.h, Ch.sp, Ch.D, Ch.a, Ch.t, Ch.e, Ch.sp, 1, 6, Ch.slash, 0, 9, Ch.slash, 2, 0, 0, 3>>,
     digits |-> <<Ch.A, 1, Ch.sp, Ch.B, 2, Ch.sp, Ch.C, 3, Ch.sp, Ch.D, 4>>,
     arabic_card |-> <<Ch.beh, Ch.tah, Ch.alef, Ch.qaf, Ch.tehm, Ch.sp, Ch.meem, Ch.dal, Ch.noon, Ch.yeh, Ch.tehm>>]

NameMenu ==
    { NameLine.labelled, NameLine.label_only, NameLine.bare, NameLine.one_word,
      NameLine.full_label, NameLine.non_name, NameLine.short, NameLine.civil }

\* the documents of tests/test_extraction.py about the name, and lines with other labels
NameTestDocuments ==
    { << DateLine.birth_colon, DateLine.ex, DateLine.piy_date, DateLine.name_label,
         DateLine.full_name >>,
      << NameLine.arabic, NameLine.holder >>,
      << NameLine.bank, NameLine.digits, NameLine.birth, NameLine.bare >>,
      << NameLine.label_only, NameLine.label_only, NameLine.birth, NameLine.bare >>,
      << NameLine.arabic_card, NameLine.short, NameLine.bare, NameLine.holder, NameLine.digits >>,
      << IdLine.blank >> }

InitEx ==
    /\ IdleCk
    /\ IdleDc
    /\ IdlePipe
    /\ IdleRank
    /\ fields = NoFields
    /\ expected_name = None
    /\ expected_dob = None
    /\ lib_score = 0
    /\ validation = NoResult
    /\ vpc = "idle"
    /\ today \in TodayChoices
    /\ clean_lines = <<>>
    /\ xpc = "clean"

InitExId == InitEx /\ ocr_lines \in Documents(IdMenu) \cup IdTestDocuments

InitExDates == InitEx /\ ocr_lines \in Documents(DateMenu) \cup DateTestDocuments

InitExName == InitEx /\ ocr_lines \in Documents(NameMenu) \cup NameTestDocuments

\* line 624: lines = [_clean_line(line.text) for line in ocr_result.lines if line.text.strip()]
CleanLines ==
    /\ xpc = "clean"
    /\ clean_lines' = LET kept == SelectSeq(ocr_lines, LAMBDA t : StripBlank(t) # <<>>)
                      IN  [k \in 1..Len(kept) |-> _clean_line(kept[k])]
    /\ xpc' = "civil_id"
    /\ UNCHANGED <<ocr_lines, ckvars, vlvars, ppvars, rkvars, dcvars>>

\* line 627: civil_id = _pick_civil_id(lines)
PickCivilId ==
    /\ xpc = "civil_id"
    /\ fields' = [fields EXCEPT !.civil_id = _pick_civil_id(clean_lines, today)]
    /\ xpc' = "dates"
    /\ UNCHANGED <<ocr_lines, clean_lines, ckvars, expected_name, expected_dob, today, lib_score,
                   validation, vpc, ppvars, rkvars, dcvars>>

\* line 628: birth_date, expiry = _pick_dob_and_expiry(lines, civil_id=civil_id)
PickDobAndExpiry ==
    /\ xpc = "dates"
    /\ LET out == _pick_dob_and_expiry(clean_lines, fields.civil_id, today)
       IN  fields' = [fields EXCEPT !.birth_date = out.birth_out, !.expiry_date = out.expiry_out]
    /\ xpc' = "name"
    /\ UNCHANGED <<ocr_lines, clean_lines, ckvars, expected_name, expected_dob, today, lib_score,
                   validation, vpc, ppvars, rkvars, dcvars>>

\* lines 629-639: name, candidates = _pick_name(lines), and the ExtractedFields returned
PickName ==
    /\ xpc = "name"
    /\ fields' = [civil_id |-> fields.civil_id,
                  birth_date |-> fields.birth_date,
                  expiry_date |-> fields.expiry_date,
                  name |-> _pick_name(clean_lines).name,
                  doc_type_hint |-> _doc_hint(FullText(clean_lines, ocr_lines)),
                  candidate_names |-> _pick_name(clean_lines).candidates,
                  raw_lines |-> clean_lines]
    /\ xpc' = "done"
    /\ UNCHANGED <<ocr_lines, clean_lines, ckvars, expected_name, expected_dob, today, lib_score,
                   validation, vpc, ppvars, rkvars, dcvars>>

NextEx == CleanLines \/ PickCivilId \/ PickDobAndExpiry \/ PickName

SpecExId == InitExId /\ [][NextEx]_vars

SpecExDates == InitExDates /\ [][NextEx]_vars

SpecExName == InitExName /\ [][NextEx]_vars

\* pipeline.py lines 128 and 186: the fields extract_fields returned are validated
ValidateExtracted ==
    /\ xpc = "done"
    /\ vpc = "idle"
    /\ validation' = validate_fields(fields, expected_name, expected_dob, today, lib_score)
    /\ vpc' = "returned"
    /\ UNCHANGED <<fields, expected_name, expected_dob, today, lib_score, ckvars, ppvars, rkvars,
                   dcvars, exvars>>

InitExVal ==
    InitEx /\ ocr_lines \in Documents(DateMenu) \cup DateTestDocuments \cup IdTestDocuments

NextExVal == NextEx \/ ValidateExtracted

SpecExVal == InitExVal /\ [][NextExVal]_vars

-----------------------------------------------------------------------------
(* Specification SpecPipe: process_document (pipeline.py lines 115-199)    *)
(*                                                                         *)
(* What an OCR pass reads is a reading: the five fields extraction gets    *)
(* out of it.  The lines of an OCRResult are modelled by the triple        *)
(* <<source label, reading, confidence>>, so that two passes never share   *)
(* their lines; extract_fields copies them into raw_lines.                 *)

ExpiryText == _format_date_output(<<2028, 9, 16>>)
BirthText == _format_date_output(<<2003, 9, 16>>)

Reading(cid, bd, ex, nm, hint) ==
    [civil_id |-> cid, birth_date |-> bd, expiry_date |-> ex, name |-> nm, doc_type_hint |-> hint]

\* every combination of present and absent fields
AllReadings ==
    [civil_id : {None, Ids.valid_2003}, birth_date : {None, BirthText},
     expiry_date : {None, ExpiryText}, name : {None, Names.john_doe},
     doc_type_hint : {"civil_id", "bank_statement", "None"}]

R == [none    |-> Reading(None, None, None, None, "None"),
      hint    |-> Reading(None, None, None, None, "civil_id"),
      id_only |-> Reading(Ids.badsum_1999, None, None, None, "None"),
      dates   |-> Reading(None, BirthText, ExpiryText, None, "bank_statement"),
      full    |-> Reading(Ids.valid_2003, BirthText, ExpiryText, Names.john_doe, "civil_id")]

Ok(reading, conf) == [kind |-> "ok", reading |-> reading, conf |-> conf]
Fails(kind) == [kind |-> kind, reading |-> R.none, conf |-> 0]

\* backend.run(image): the OCRResult of a pass
RunOcr(source, outcome) ==
    [lines |-> <<source, outcome.reading, outcome.conf>>, mean_confidence |-> outcome.conf]

\* extract_fields(ocr) as the pipeline sees it: the fields read, raw_lines from the OCR lines
ExtractPass(o) ==
    [civil_id |-> o.lines[2].civil_id, birth_date |-> o.lines[2].birth_date,
     expiry_date |-> o.lines[2].expiry_date, name |-> o.lines[2].name,
     doc_type_hint |-> o.lines[2].doc_type_hint, raw_lines |-> o.lines]

RetryWarning_unnamed(label) == "OCR retry failed"

RetryWarning(label) == "OCR retry '" \o label \o "' failed"
SelectedWarning(source) == "Selected OCR result from '" \o source \o "' fallback due to better field extraction."

SubLabel(label, k) == IF k = 1 THEN label \o ":preprocessed" ELSE label \o ":original"

\* lines 132-136
RetryForLowConf(c, o) == c.retry_low_conf_on_original /\ o.mean_confidence < c.low_conf_threshold

RetryForMissingFields_identifier_only(c, f) == c.retry_missing_key_fields /\ ~Truthy(f.civil_id)

RetryForMissingFields(c, f) ==
    LET id_like == Truthy(f.civil_id) \/ f.doc_type_hint = "civil_id"
    IN  c.retry_missing_key_fields
        /\ (\/ ~Truthy(f.civil_id)
            \/ (id_like /\ (~Truthy(f.birth_date) \/ ~Truthy(f.expiry_date) \/ ~Truthy(f.name))))

\* lines 121-130: load, preprocess, build the backend, first OCR pass and extraction
Start ==
    /\ pc = "initial"
    /\ IF doc.baseline.kind = "ok"
       THEN /\ prep' = [deskew_angle |-> doc.angle]
            /\ ocr' = RunOcr("preprocessed", doc.baseline)
            /\ fields' = ExtractPass(ocr')
            /\ best_source' = "preprocessed"
            /\ warnings' = <<>>
            /\ ocr_calls' = 1
            /\ evaluated' = {<<doc.baseline.reading, doc.baseline.conf>>}
            /\ pc' = "evaluate"
            /\ UNCHANGED error
       ELSE /\ pc' = "raised"
            /\ error' = doc.baseline.kind
            /\ ocr_calls' = IF doc.baseline.kind \in {"ocr_run", "extraction"} THEN 1 ELSE 0
            /\ UNCHANGED <<prep, ocr, fields, best_source, warnings, evaluated>>
    /\ UNCHANGED <<doc, cfg, retry_for_low_conf, retry_images, idx, sub, local_best_ocr,
                   local_best_fields, local_best_label, result, failures, attempted,
                   expected_name, expected_dob, today, lib_score, validation, vpc, ckvars, rkvars, dcvars, exvars>>

\* the position after one pass of the outer loop
LoopPc_stops_at_full_score(i) ==
    IF i > Len(retry_images) \/ _field_score(fields) = 15 THEN "post_loop" ELSE "retrying"

\* the position after one pass of the outer loop
LoopPc(i) == IF i > Len(retry_images) THEN "post_loop" ELSE "retrying"

\* lines 132-139: the retry decision
Decide ==
    /\ pc = "evaluate"
    /\ retry_for_low_conf' = RetryForLowConf(cfg, ocr)
    /\ IF retry_for_low_conf' \/ RetryForMissingFields(cfg, fields)
       THEN /\ retry_images' = _build_retry_images(doc.image, cfg.try_rotations_on_missing_fields)
            /\ idx' = 1
            /\ sub' = 0
            /\ pc' = "retrying"
       ELSE /\ pc' = "validate"
            /\ UNCHANGED <<retry_images, idx, sub>>
    /\ UNCHANGED <<doc, cfg, error, prep, ocr, fields, best_source, warnings, local_best_ocr,
                   local_best_fields, local_best_label, result, ocr_calls, failures, evaluated,
                   attempted, expected_name, expected_dob, today, lib_score, validation, vpc,
                   ckvars, rkvars, dcvars, exvars>>

\* line 146: the artifacts of a retry image are bound to retry_prep, so prep stays the
\* first pass's; here with the retry's artifacts bound to prep itself
PrepAfterRetry_overwritten(first, retried) == retried

\* line 146: the artifacts of a retry image are bound to retry_prep, so prep stays the
\* first pass's
PrepAfterRetry(first, retried) == first

\* lines 141-149: the loop takes up retry_images[idx] and preprocesses it
RetryPreprocess(fail) ==
    /\ pc = "retrying"
    /\ sub = 0
    /\ fail => failures < MaxFailures
    /\ local_best_ocr' = NoOcr
    /\ local_best_fields' = NoFields
    /\ local_best_label' = NoLabel
    /\ attempted' = Append(attempted, retry_images[idx].label)
    /\ IF fail
       THEN /\ warnings' = Append(warnings, RetryWarning(retry_images[idx].label))
            /\ failures' = failures + 1
            /\ idx' = idx + 1
            /\ pc' = LoopPc(idx')
            /\ UNCHANGED <<sub, prep>>
       ELSE /\ sub' = 1
            /\ prep' = PrepAfterRetry(prep, [deskew_angle |-> doc.retry_angle])
            /\ UNCHANGED <<warnings, failures, idx, pc>>
    /\ UNCHANGED <<doc, cfg, error, ocr, fields, best_source, retry_for_low_conf,
                   retry_images, result, ocr_calls, evaluated,
                   expected_name, expected_dob, today, lib_score, validation, vpc, ckvars, rkvars, dcvars, exvars>>

\* lines 163-170: the better of the sub-candidates is kept
KeepLocalBest_always(candidate_ocr, candidate_fields) == TRUE

KeepLocalBest(candidate_ocr, candidate_fields) ==
    \/ local_best_ocr = NoOcr
    \/ local_best_fields = NoFields
    \/ _is_better_candidate(candidate_ocr, candidate_fields, local_best_ocr, local_best_fields)

\* lines 155-170: one sub-candidate: OCR, extraction, comparison with the local best
RetryCandidate(outcome) ==
    /\ pc = "retrying"
    /\ sub \in {1, 2}
    /\ outcome.kind # "ok" => failures < MaxFailures
    /\ ocr_calls' = ocr_calls + 1
    /\ sub' = sub + 1
    /\ LET source_label == SubLabel(retry_images[idx].label, sub)
           candidate_ocr == RunOcr(source_label, outcome)
           candidate_fields == ExtractPass(candidate_ocr)
       IN  IF outcome.kind # "ok"
           THEN /\ warnings' = Append(warnings, RetryWarning(source_label))
                /\ failures' = failures + 1
                /\ UNCHANGED <<local_best_ocr, local_best_fields, local_best_label, evaluated>>
           ELSE /\ evaluated' = evaluated \cup {<<outcome.reading, outcome.conf>>}
                /\ IF KeepLocalBest(candidate_ocr, candidate_fields)
                   THEN /\ local_best_ocr' = candidate_ocr
                        /\ local_best_fields' = candidate_fields
                        /\ local_best_label' = source_label
                   ELSE UNCHANGED <<local_best_ocr, local_best_fields, local_best_label>>
                /\ UNCHANGED <<warnings, failures>>
    /\ UNCHANGED <<doc, cfg, pc, error, prep, ocr, fields, best_source, retry_for_low_conf,
                   retry_images, idx, result, attempted,
                   expected_name, expected_dob, today, lib_score, validation, vpc, ckvars, rkvars, dcvars, exvars>>

\* lines 172-176: whether the local winner replaces the current best
ReplacesBest(o, f) ==
    /\ local_best_ocr # NoOcr
    /\ local_best_fields # NoFields
    /\ _is_better_candidate(local_best_ocr, local_best_fields, o, f)

\* lines 177-179: the replacement
SwapFields_keeps_fields(f) == f

SwapFields(f) == local_best_fields

\* lines 172-179: after the inner loop, the local winner replaces the current best
SelectLocalBest ==
    /\ pc = "retrying"
    /\ sub = 3
    /\ IF ReplacesBest(ocr, fields)
       THEN /\ ocr' = local_best_ocr
            /\ fields' = SwapFields(fields)
            /\ best_source' = IF local_best_label # NoLabel THEN local_best_label
                              ELSE retry_images[idx].label
       ELSE UNCHANGED <<ocr, fields, best_source>>
    /\ idx' = idx + 1
    /\ sub' = 0
    /\ pc' = LoopPc(idx')
    /\ UNCHANGED <<doc, cfg, error, prep, warnings, retry_for_low_conf, retry_images,
                   local_best_ocr, local_best_fields, local_best_label, result, ocr_calls,
                   failures, evaluated, attempted,
                   expected_name, expected_dob, today, lib_score, validation, vpc, ckvars, rkvars, dcvars, exvars>>

\* lines 181-184 with the elif emitting the low-confidence warning whatever triggered the retry
PostLoopWarnings_any_trigger(ws, source, low, o, c) ==
    IF source # "preprocessed" THEN Append(ws, SelectedWarning(source))
    ELSE IF o.mean_confidence < c.low_conf_threshold THEN Append(ws, W.low_conf)
    ELSE ws

\* lines 181-184: the warning after the loop (low is retry_for_low_conf)
PostLoopWarnings(ws, source, low, o, c) ==
    IF source # "preprocessed" THEN Append(ws, SelectedWarning(source))
    ELSE IF low /\ o.mean_confidence < c.low_conf_threshold THEN Append(ws, W.low_conf)
    ELSE ws

\* lines 181-184: the warning after the loop
PostLoop ==
    /\ pc = "post_loop"
    /\ warnings' = PostLoopWarnings(warnings, best_source, retry_for_low_conf, ocr, cfg)
    /\ pc' = "validate"
    /\ UNCHANGED <<doc, cfg, error, prep, ocr, fields, best_source, retry_for_low_conf,
                   retry_images, idx, sub, local_best_ocr, local_best_fields, local_best_label,
                   result, ocr_calls, failures, evaluated, attempted,
                   expected_name, expected_dob, today, lib_score, validation, vpc, ckvars, rkvars, dcvars, exvars>>

\* lines 186-199: validation and the PipelineResult
Finish ==
    /\ pc = "validate"
    /\ validation' = validate_fields(fields, expected_name, expected_dob, today, lib_score)
    /\ warnings' = AppendIf(warnings \o validation'.warnings, ~Truthy(fields.civil_id), W.no_civil)
    /\ result' = [extracted |-> fields,
                  validation |-> validation',
                  ocr_engine |-> "backend",
                  ocr_source |-> best_source,
                  ocr_mean_confidence |-> ocr.mean_confidence,
                  preprocess_angle |-> prep.deskew_angle,
                  warnings |-> warnings']
    /\ pc' = "done"
    /\ UNCHANGED <<doc, cfg, error, prep, ocr, fields, best_source, retry_for_low_conf,
                   retry_images, idx, sub, local_best_ocr, local_best_fields, local_best_label,
                   ocr_calls, failures, evaluated, attempted,
                   expected_name, expected_dob, today, lib_score, vpc, ckvars, rkvars, dcvars, exvars>>

NextPipe ==
    \/ Start
    \/ Decide
    \/ \E fail \in BOOLEAN : RetryPreprocess(fail)
    \/ \E outcome \in doc.retry : RetryCandidate(outcome)
    \/ SelectLocalBest
    \/ PostLoop
    \/ Finish

\* image sizes for which every band crop, some, or none is accepted, with the number of
\* card-like regions the contour analysis finds
ImageChoices ==
    { [h |-> 30,  w |-> 100, cards |-> 0],
      [h |-> 70,  w |-> 100, cards |-> 0] }

CfgChoices ==
    [retry_low_conf_on_original : BOOLEAN, retry_missing_key_fields : BOOLEAN,
     try_rotations_on_missing_fields : BOOLEAN, low_conf_threshold : {55}]

StartFailures ==
    { Fails("input"), Fails("preprocess"), Fails("engine_init"), Fails("ocr_run"),
      Fails("extraction") }

\* what the sub-candidates of a retry image may yield
RetryMenu ==
    { Fails("ocr_run"), Fails("extraction"),
      Ok(R.hint, 90), Ok(R.dates, 50), Ok(R.full, 70) }

Cfg(low, missing, rotations) ==
    [retry_low_conf_on_original |-> low, retry_missing_key_fields |-> missing,
     try_rotations_on_missing_fields |-> rotations, low_conf_threshold |-> 55]

InitPipeCommon ==
    /\ IdleCk
    /\ IdleDc
    /\ IdleEx
    /\ IdleRank
    /\ fields = NoFields
    /\ expected_name = Names.john_doe_punct
    /\ expected_dob = None
    /\ today = <<2026, 11, 1>>
    /\ lib_score = 8400
    /\ validation = NoResult
    /\ vpc = "idle"
    /\ pc = "initial"
    /\ error = "none"
    /\ prep = [deskew_angle |-> 0]
    /\ ocr = NoOcr
    /\ best_source = NoLabel
    /\ warnings = <<>>
    /\ retry_for_low_conf = FALSE
    /\ retry_images = <<>>
    /\ idx = 0
    /\ sub = 0
    /\ local_best_ocr = NoOcr
    /\ local_best_fields = NoFields
    /\ local_best_label = NoLabel
    /\ result = NoPipelineResult
    /\ ocr_calls = 0
    /\ failures = 0
    /\ evaluated = {}
    /\ attempted = <<>>

InitPipe ==
    /\ InitPipeCommon
    /\ cfg \in {Cfg(TRUE, TRUE, TRUE), Cfg(TRUE, TRUE, FALSE), Cfg(FALSE, TRUE, TRUE),
                Cfg(TRUE, FALSE, TRUE)}
    /\ doc \in [image : ImageChoices,
                baseline : StartFailures
                           \cup {Ok(R.none, 50), Ok(R.id_only, 70), Ok(R.full, 50), Ok(R.full, 70)},
                retry : {RetryMenu},
                angle : {3},
                retry_angle : {8}]

SpecPipe == InitPipe /\ [][NextPipe]_vars

-----------------------------------------------------------------------------
(* Specification SpecDecide: process_document on every first-pass reading   *)
(* and every setting of the retry toggles, over the smallest image.         *)

ConfLevels == {50, 55, 70}

InitDecide ==
    /\ InitPipeCommon
    /\ cfg \in CfgChoices
    /\ doc \in [image : {[h |-> 30, w |-> 100, cards |-> 0]},
                baseline : {Ok(r, c) : r \in AllReadings, c \in ConfLevels},
                retry : {{Fails("ocr_run"), Ok(R.full, 70)}},
                angle : {3},
                retry_angle : {8}]

SpecDecide == InitDecide /\ [][NextPipe]_vars

-----------------------------------------------------------------------------
(* Specification SpecLoop: process_document over images that yield every    *)
(* kind of retry variant (band crops, card-like regions, rotations).        *)

\* a page on which every band crop is accepted and more card-like regions are found than
\* max_regions, one with some band crops and one region, one too small for any crop
LoopImages ==
    { [h |-> 100, w |-> 100, cards |-> 4],
      [h |-> 70,  w |-> 100, cards |-> 1],
      [h |-> 30,  w |-> 100, cards |-> 0] }

InitLoop ==
    /\ InitPipeCommon
    /\ cfg \in {Cfg(TRUE, TRUE, TRUE), Cfg(TRUE, TRUE, FALSE), Cfg(FALSE, FALSE, TRUE)}
    /\ doc \in [image : LoopImages,
                baseline : {Fails("ocr_run"), Ok(R.none, 50), Ok(R.full, 50), Ok(R.full, 70)},
                retry : {{Fails("ocr_run"), Ok(R.hint, 90), Ok(R.full, 70)}},
                angle : {3},
                retry_angle : {8}]

SpecLoop == InitLoop /\ [][NextPipe]_vars

-----------------------------------------------------------------------------
(* Specification SpecRank: the best of three synthetic candidates, selected *)
(* the way the retry loop selects (first one, replaced by a better one).    *)

Candidate(tag, reading, conf) ==
    LET o == RunOcr(tag, Ok(reading, conf))
    IN  [ocr |-> o, fields |-> ExtractPass(o)]

RankConfLevels == {50, 70, 90}

ThirdCandidates ==
    { Candidate("c", Reading(None, None, None, Names.john_doe, "None"), 70),
      Candidate("c", R.hint, 90),
      Candidate("c", R.dates, 70),
      Candidate("c", R.full, 50) }

InitRank ==
    /\ IdleCk
    /\ IdleDc
    /\ IdleEx
    /\ IdleVal
    /\ IdlePipe
    /\ \E ra \in AllReadings, rb \in AllReadings, ca \in RankConfLevels, cb \in RankConfLevels,
          c3 \in ThirdCandidates :
          cands = <<Candidate("a", ra, ca), Candidate("b", rb, cb), c3>>
    /\ selected = 0

Better(i, j) ==
    _is_better_candidate(cands[i].ocr, cands[i].fields, cands[j].ocr, cands[j].fields)

\* lines 163-179 on the candidates cs in their order of arrival: the index of the one kept
KeptIndex(cs) ==
    LET b2 == IF _is_better_candidate(cs[2].ocr, cs[2].fields, cs[1].ocr, cs[1].fields)
              THEN 2 ELSE 1
    IN  IF _is_better_candidate(cs[3].ocr, cs[3].fields, cs[b2].ocr, cs[b2].fields)
        THEN 3 ELSE b2

\* best = first; each later candidate replaces best when _is_better_candidate says so
SelectBest ==
    /\ selected = 0
    /\ cands # <<>>
    /\ selected' = KeptIndex(cands)
    /\ UNCHANGED <<cands, ckvars, vlvars, ppvars, dcvars, exvars>>

NextRank == SelectBest

SpecRank == InitRank /\ [][NextRank]_vars

\* the orders in which three candidates can arrive
Orders == {o \in [1..3 -> 1..3] : {o[1], o[2], o[3]} = 1..3}

Arrival(cs, o) == [k \in 1..3 |-> cs[o[k]]]

\* three candidates, with ties of rank among them, arriving in every order
InitArrival ==
    /\ IdleCk
    /\ IdleDc
    /\ IdleEx
    /\ IdleVal
    /\ IdlePipe
    /\ \E ra \in AllReadings, rb \in {R.full, R.dates, R.hint},
          ca \in RankConfLevels, cb \in RankConfLevels, c3 \in ThirdCandidates, o \in Orders :
          cands = Arrival(<<Candidate("a", ra, ca), Candidate("b", rb, cb), c3>>, o)
    /\ selected = 0

SpecArrival == InitArrival /\ [][NextRank]_vars

-----------------------------------------------------------------------------
(* The ranking as the specification states it *)

Present(v) == v # None /\ v # <<>>

StatedFieldScore(f) ==
      6 * (IF Present(f.civil_id) THEN 1 ELSE 0)
    + 3 * (IF Present(f.birth_date) THEN 1 ELSE 0)
    + 3 * (IF Present(f.expiry_date) THEN 1 ELSE 0)
    + 2 * (IF Present(f.name) THEN 1 ELSE 0)
    + 1 * (IF f.doc_type_hint = "civil_id" THEN 1 ELSE 0)

StatedRank(f, conf) == <<StatedFieldScore(f), conf>>

Outranks(a, b) == a[1] > b[1] \/ (a[1] = b[1] /\ a[2] > b[2])

-----------------------------------------------------------------------------
(* C1 *)

AfterLoop == pc \in {"post_loop", "validate", "done"} /\ retry_images # <<>>

\* C1: once the retry loop has finished, no pass whose OCR and extraction succeeded (the
\* first pass or a retry sub-candidate) strictly outranks the current best, and the
\* PipelineResult returned carries that best.
C1_GloballyBest ==
    /\ AfterLoop =>
          \A e \in evaluated :
              ~Outranks(StatedRank(e[1], e[2]), StatedRank(fields, ocr.mean_confidence))
    /\ (pc = "done" /\ retry_images # <<>>) =>
          \A e \in evaluated :
              ~Outranks(StatedRank(e[1], e[2]),
                        StatedRank(result.extracted, result.ocr_mean_confidence))

\* a run that retried, caught a failure, evaluated several passes and returned a retry's result
C1_Witness ==
    /\ pc = "done"
    /\ failures >= 1
    /\ Cardinality(evaluated) >= 3
    /\ result.ocr_source # "preprocessed"

-----------------------------------------------------------------------------
(* C2 *)

CandRank(i) == StatedRank(cands[i].fields, cands[i].ocr.mean_confidence)

\* C2: _is_better_candidate(A, B) holds exactly when A's (field score, confidence) is
\* lexicographically greater than B's; the relation is irreflexive, asymmetric,
\* transitive and total up to equal ranks; the candidate selected outranks-or-ties all
\* three, and among ranks (1, 0.9), (2, 0.5), (2, 0.7) it is the one ranked (2, 0.7).
C2_LexicographicRanking ==
    cands # <<>> =>
        /\ \A i \in 1..3, j \in 1..3 : Better(i, j) <=> Outranks(CandRank(i), CandRank(j))
        /\ \A i \in 1..3 : ~Better(i, i)
        /\ \A i \in 1..3, j \in 1..3 : Better(i, j) => ~Better(j, i)
        /\ \A i \in 1..3, j \in 1..3, k \in 1..3 : (Better(i, j) /\ Better(j, k)) => Better(i, k)
        /\ \A i \in 1..3, j \in 1..3 :
              (~Better(i, j) /\ ~Better(j, i)) => CandRank(i) = CandRank(j)
        /\ \A i \in 1..3, j \in 1..3 :
              (CandRank(i)[1] > CandRank(j)[1]) => Better(i, j)
        /\ selected # 0 =>
              /\ \A i \in 1..3 : ~Outranks(CandRank(i), CandRank(selected))
              /\ ({CandRank(1), CandRank(2), CandRank(3)} = {<<1, 90>>, <<2, 50>>, <<2, 70>>})
                    => CandRank(selected) = <<2, 70>>

\* the three candidates of the example, and the selection made
C2_Witness ==
    /\ selected # 0
    /\ CandRank(1) = <<1, 90>> /\ CandRank(2) = <<2, 50>> /\ CandRank(3) = <<2, 70>>
    /\ selected = 3

-----------------------------------------------------------------------------
(* C3 *)

\* the candidate a step of the retry loop is working on
CurrentCandidate ==
    IF sub = 0 THEN retry_images[idx].label
    ELSE IF sub = 1 THEN retry_images[idx].label \o ":preprocessed"
    ELSE retry_images[idx].label \o ":original"

Labels(images) == [i \in 1..Len(images) |-> images[i].label]

\* C3: a step of the retry loop in which preprocessing, OCR or extraction throws appends
\* one warning naming the candidate, leaves the current best, the local best of the image
\* and the set of ranked passes as they were, and moves on to the next candidate;
\* no exception leaves process_document once retrying has begun, and a finished run has
\* taken up every retry image and returned a PipelineResult.
C3_FailureIsLocal ==
    /\ [][(failures' = failures + 1) =>
            /\ pc = "retrying"
            /\ warnings' = Append(warnings, "OCR retry '" \o CurrentCandidate \o "' failed")
            /\ ocr' = ocr /\ fields' = fields /\ best_source' = best_source
            /\ evaluated' = evaluated
            /\ sub \in {1, 2} => /\ local_best_ocr' = local_best_ocr
                                 /\ local_best_fields' = local_best_fields
                                 /\ local_best_label' = local_best_label
                                 /\ idx' = idx /\ sub' = sub + 1 /\ pc' = "retrying"
            /\ sub = 0 => /\ idx' = idx + 1 /\ sub' = 0
                          /\ pc' = IF idx < Len(retry_images) THEN "retrying" ELSE "post_loop"
            /\ error' = "none"]_vars
    /\ [](pc = "raised" => (failures = 0 /\ retry_images = <<>>))
    /\ []((pc = "done" /\ retry_images # <<>>) =>
            /\ attempted = Labels(retry_images)
            /\ result.warnings = warnings
            /\ result.extracted = fields)

\* a run in which a retry candidate failed and a later candidate replaced the best
C3_Witness ==
    /\ pc = "done"
    /\ failures >= 1
    /\ \E i \in 1..Len(warnings) : warnings[i] = "OCR retry 'original:preprocessed' failed"
    /\ result.ocr_source \notin {"preprocessed", "original:preprocessed"}

-----------------------------------------------------------------------------
(* C4 *)

BaselineFields == doc.baseline.reading

\* the retry condition as stated, on the first pass
StatedRetry ==
    \/ cfg.retry_low_conf_on_original /\ doc.baseline.conf < cfg.low_conf_threshold
    \/ /\ cfg.retry_missing_key_fields
       /\ \/ ~Present(BaselineFields.civil_id)
          \/ /\ (BaselineFields.doc_type_hint = "civil_id" \/ Present(BaselineFields.civil_id))
             /\ \/ ~Present(BaselineFields.birth_date)
                \/ ~Present(BaselineFields.expiry_date)
                \/ ~Present(BaselineFields.name)

\* C4: after the first pass, process_document builds the retry list and enters the loop
\* exactly when the stated retry condition holds; otherwise it makes no further OCR call
\* and returns the first pass with source "preprocessed".
C4_RetryDecision ==
    /\ pc \in {"retrying", "post_loop", "validate", "done"} =>
          ((retry_images # <<>>) <=> StatedRetry)
    /\ (pc \in {"validate", "done"} /\ ~StatedRetry) =>
          /\ ocr_calls = 1
          /\ best_source = "preprocessed"
          /\ attempted = <<>>
    /\ (pc = "done" /\ ~StatedRetry) =>
          /\ result.ocr_source = "preprocessed"
          /\ result.ocr_mean_confidence = doc.baseline.conf
          /\ result.extracted.raw_lines = <<"preprocessed", doc.baseline.reading, doc.baseline.conf>>

\* both retry toggles on, confidence exactly at the threshold, every field read: no retry
C4_Witness ==
    /\ pc = "done"
    /\ cfg.retry_low_conf_on_original /\ cfg.retry_missing_key_fields
    /\ doc.baseline.conf = cfg.low_conf_threshold
    /\ retry_images = <<>>
    /\ ocr_calls = 1
    /\ result.ocr_source = "preprocessed"

-----------------------------------------------------------------------------
(* C5 *)

\* o, f and s come from one and the same pass
WholeRecord(o, f, s) ==
    /\ o.lines[1] = s
    /\ o.mean_confidence = o.lines[3]
    /\ f.raw_lines = o.lines
    /\ f.civil_id = o.lines[2].civil_id
    /\ f.birth_date = o.lines[2].birth_date
    /\ f.expiry_date = o.lines[2].expiry_date
    /\ f.name = o.lines[2].name
    /\ f.doc_type_hint = o.lines[2].doc_type_hint

\* C5: throughout the orchestration the OCR result, the fields and the source label held
\* as current best (and as local best of an image) belong to one pass, and so do
\* ocr_source, ocr_mean_confidence and extracted of the PipelineResult.
C5_WholeRecordSwap ==
    /\ pc \in {"evaluate", "retrying", "post_loop", "validate", "done"} =>
          WholeRecord(ocr, fields, best_source)
    /\ (pc = "retrying" /\ local_best_ocr # NoOcr) =>
          WholeRecord(local_best_ocr, local_best_fields, local_best_label)
    /\ pc = "done" =>
          WholeRecord([lines |-> result.extracted.raw_lines,
                       mean_confidence |-> result.ocr_mean_confidence],
                      result.extracted, result.ocr_source)

\* the current best was replaced (a rotation's pass won) and the result returned
C5_Witness ==
    /\ pc = "done"
    /\ result.ocr_source \in {"rot90:preprocessed", "rot90:original", "rot180:original"}
    /\ Cardinality(evaluated) >= 3

-----------------------------------------------------------------------------
(* C6 *)

\* C6 (as claimed): process_document raises only for input errors and for failure to
\* initialise an OCR backend.
C6_OnlyInputAndEngineInitAbort ==
    pc = "raised" => error \in {"input", "engine_init"}

-----------------------------------------------------------------------------
(* C9 *)

\* the check digit as the specification states it, written out position by position
StatedCheckDigit(p) ==
    LET total == 2*p[1] + 1*p[2] + 6*p[3] + 3*p[4] + 7*p[5] + 9*p[6]
                 + 10*p[7] + 5*p[8] + 8*p[9] + 4*p[10] + 2*p[11]
        e == 11 - (total % 11)
    IN  IF e \in 0..9 THEN e ELSE NoDigit

\* C9: for the 11-digit prefix of every identifier reached, compute_civil_id_check_digit
\* returns 11 - (weighted sum mod 11) when that lies in 0..9 and is absent otherwise;
\* the prefix extended by a digit e passes validate_civil_id_checksum exactly when the
\* check digit exists and e equals it (so for no digit at all when it is absent).
C9_CheckDigitRoundTrip ==
    LET p == SubSeq(civil_id, 1, 11)
        cd == compute_civil_id_check_digit(p)
    IN  /\ cd = StatedCheckDigit(p)
        /\ \A e \in AsciiDigits :
              validate_civil_id_checksum(p \o <<e>>) <=> (cd # NoDigit /\ e = cd)
        /\ verdict # "None" => verdict = Tri(cd # NoDigit /\ civil_id[12] = cd)

\* a generated identifier (prefix plus its check digit) was validated and accepted
C9_Witness ==
    /\ verdict = "True"
    /\ mutations >= 1
    /\ compute_civil_id_check_digit(SubSeq(civil_id, 1, 11)) = civil_id[12]

-----------------------------------------------------------------------------
(* C10 *)

\* C10: an identifier that validate_civil_id_checksum accepted is rejected after any
\* single digit (a weighted position or the check digit) is changed to another digit.
C10_SingleDigitChangeRejected ==
    (mutations >= 1 /\ prev_verdict = "True") => verdict = "False"

\* a valid identifier was changed in one digit and validated again
C10_Witness ==
    /\ mutations >= 1
    /\ prev_verdict = "True"
    /\ verdict = "False"

-----------------------------------------------------------------------------
(* C7 *)

Returned == vpc = "returned"

\* the six failing conditions of the validation engine, read off the arguments
NoKeyFields == ~(Truthy(fields.civil_id) \/ Truthy(fields.birth_date) \/ Truthy(fields.name))

FormatInvalid == Truthy(fields.civil_id) /\ ~_CIVIL_RE_fullmatch(fields.civil_id)

ChecksumInvalid == Truthy(fields.civil_id) /\ ~validate_civil_id_checksum(fields.civil_id)

DobInconsistent ==
    /\ Truthy(fields.civil_id)
    /\ extract_dob_from_civil_id(fields.civil_id, today) # None
    /\ parse_iso_date(fields.birth_date) # None
    /\ parse_iso_date(fields.birth_date) # extract_dob_from_civil_id(fields.civil_id, today)

DobImplausible == validation.dob_plausible = "False"

NameMismatch ==
    /\ Truthy(expected_name) /\ Truthy(fields.name)
    /\ validation.name_match = "False"

\* C7: validate_fields returns overall_pass = FALSE exactly when no key field was
\* extracted, or the identifier format is invalid, or the checksum is invalid with an
\* identifier present, or the identifier-decoded and extracted birth dates differ, or the
\* birth date is implausible, or the names do not match when both exist.
C7_OverallPass ==
    Returned =>
        (validation.overall_pass = FALSE <=>
            (\/ NoKeyFields
             \/ FormatInvalid
             \/ ChecksumInvalid
             \/ DobInconsistent
             \/ DobImplausible
             \/ NameMismatch))

\* validate_fields returned overall_pass = FALSE for the checksum alone
C7_Witness ==
    /\ Returned
    /\ validation.overall_pass = FALSE
    /\ ChecksumInvalid
    /\ ~NoKeyFields /\ ~FormatInvalid /\ ~DobInconsistent /\ ~DobImplausible /\ ~NameMismatch

-----------------------------------------------------------------------------
(* C8 *)

Has(ws, w) == \E i \in 1..Len(ws) : ws[i] = w

TriValues == {"True", "False", "None"}

\* C8: validate_fields returns a complete ValidationResult; every failing check has its
\* own warning, so overall_pass = FALSE comes with a non-empty warnings list, and fields
\* with no identifier, birth date or name fail with the "No key fields" warning.
C8_FailureHasWarning ==
    Returned =>
        /\ DOMAIN validation = {"civil_id_format_valid", "civil_id_checksum_valid",
                                "civil_id_dob_consistent", "dob_plausible",
                                "name_similarity_score", "name_match", "overall_pass",
                                "warnings"}
        /\ validation.overall_pass \in BOOLEAN
        /\ validation.dob_plausible \in TriValues
        /\ NoKeyFields => ~validation.overall_pass /\ Has(validation.warnings, W.no_key)
        /\ FormatInvalid => ~validation.overall_pass /\ Has(validation.warnings, W.format)
        /\ (ChecksumInvalid /\ ~FormatInvalid)
              => ~validation.overall_pass /\ Has(validation.warnings, W.checksum)
        /\ DobInconsistent => ~validation.overall_pass /\ Has(validation.warnings, W.dob_cid)
        /\ DobImplausible => ~validation.overall_pass /\ Has(validation.warnings, W.plausible)
        /\ NameMismatch => ~validation.overall_pass /\ Has(validation.warnings, W.name)
        /\ ~validation.overall_pass => validation.warnings # <<>>

\* validate_fields returned for fields with no identifier, no birth date and no name
C8_Witness ==
    /\ Returned
    /\ fields.civil_id = None /\ fields.birth_date = None /\ fields.name = None
    /\ ~validation.overall_pass
    /\ Has(validation.warnings, W.no_key)

-----------------------------------------------------------------------------
(* C11 *)

\* a real calendar date, written out from the Gregorian rules
StatedRealDate(y, m, d) ==
    /\ m \in 1..12
    /\ d >= 1
    /\ d <= (CASE m \in {1, 3, 5, 7, 8, 10, 12} -> 31
               [] m \in {4, 6, 9, 11} -> 30
               [] OTHER -> IF y % 400 = 0 \/ (y % 4 = 0 /\ y % 100 # 0) THEN 29 ELSE 28)

StatedAfter(a, b) ==
    a[1] * 10000 + a[2] * 100 + a[3] > b[1] * 10000 + b[2] * 100 + b[3]

\* the year the identifier's leading digit and YY stand for
StatedIdYear == (IF lead = 2 THEN 1900 ELSE 2000) + (born[1] % 100)

\* C11: an identifier whose first digit is 2 for 19xx or 3 for 20xx, followed by YYMMDD of a
\* real date that is not after today, decodes to exactly that date whatever its last five
\* digits are; decoding is absent when the first digit is neither 2 nor 3, when month/day
\* is not a real calendar date, or when the decoded date is after today.
C11_DecodeRoundTrip ==
    dpc = "done" =>
        LET real == StatedRealDate(StatedIdYear, born[2], born[3])
            century_ok == \/ lead = 2 /\ born[1] \in 1900..1999
                          \/ lead = 3 /\ born[1] \in 2000..2099
        IN  /\ (century_ok /\ real /\ ~StatedAfter(born, today)) => decoded = born
            /\ lead \notin {2, 3} => decoded = None
            /\ ~real => decoded = None
            /\ (lead \in {2, 3} /\ real
                  /\ StatedAfter(<<StatedIdYear, born[2], born[3]>>, today)) => decoded = None

\* a date of this year decoded on its own day, and next year's date refused
C11_Witness ==
    /\ dpc = "done"
    /\ born = <<2026, 11, 1>> /\ today = <<2026, 11, 1>> /\ lead = 3
    /\ decoded = <<2026, 11, 1>>
    /\ serial = <<9,9,9,9,9>>

-----------------------------------------------------------------------------
(* C18 *)

\* the checksum rule on the digits of a 12-digit identifier
StatedChecksumOk(cid) ==
    LET p == [i \in 1..11 |-> DigitVal(cid[i])]
    IN  StatedCheckDigit(p) # NoDigit /\ StatedCheckDigit(p) = DigitVal(cid[12])

IdPresent == Truthy(fields.civil_id)

FormatValid == IdPresent /\ _CIVIL_RE_fullmatch(fields.civil_id)

\* C18 as stated: civil_id_format_valid is set only when an identifier is present,
\* civil_id_checksum_valid is set only when the identifier is present and format-valid (absent
\* for a malformed one); when set it equals the checksum algorithm's result and the
\* checksum warning is emitted exactly when it is false.
C18_ChecksumOnlyWhenFormatValid ==
    Returned =>
        /\ validation.civil_id_format_valid # "None" => IdPresent
        /\ validation.civil_id_checksum_valid # "None" => FormatValid
        /\ validation.civil_id_checksum_valid # "None"
              => validation.civil_id_checksum_valid = Tri(StatedChecksumOk(fields.civil_id))
        /\ Has(validation.warnings, W.checksum) <=> validation.civil_id_checksum_valid = "False"

\* C18 amended: civil_id_format_valid is set exactly when an identifier is present, and so is
\* civil_id_checksum_valid; for a format-valid identifier it equals the checksum algorithm's
\* result and the checksum warning is emitted exactly when it is false; for a present but
\* malformed identifier it is false, with the format warning and no checksum warning.
C18_ChecksumSetWhenPresent ==
    Returned =>
        /\ validation.civil_id_format_valid # "None" <=> IdPresent
        /\ IdPresent => validation.civil_id_format_valid = Tri(FormatValid)
        /\ validation.civil_id_checksum_valid # "None" <=> IdPresent
        /\ FormatValid
              => /\ validation.civil_id_checksum_valid = Tri(StatedChecksumOk(fields.civil_id))
                 /\ Has(validation.warnings, W.checksum)
                       <=> validation.civil_id_checksum_valid = "False"
        /\ (IdPresent /\ ~FormatValid)
              => /\ validation.civil_id_checksum_valid = "False"
                 /\ Has(validation.warnings, W.format)
                 /\ ~Has(validation.warnings, W.checksum)
        /\ ~IdPresent => ~Has(validation.warnings, W.checksum)

\* validate_fields returned for an identifier of eleven digits
C18_Witness ==
    /\ Returned
    /\ fields.civil_id = Ids.eleven
    /\ validation.civil_id_format_valid = "False"
    /\ validation.civil_id_checksum_valid = "False"

-----------------------------------------------------------------------------
(* C19 *)

ExtractedDob == parse_iso_date(fields.birth_date)

ExpectedDob == parse_iso_date(expected_dob)

DecodedDob == IF FormatValid THEN extract_dob_from_civil_id(fields.civil_id, today) ELSE None

\* C19: civil_id_dob_consistent is set exactly when the identifier is format-valid and both
\* the extracted birth date and the identifier-decoded date exist, whatever the checksum;
\* it is true iff the two dates are equal and its warning is there iff it is false.  A
\* conflict between the expected birth date and the decoded date adds its warning, and
\* overall_pass is false only for one of the six failing checks, never for that conflict.
C19_DobConsistency ==
    Returned =>
        /\ validation.civil_id_dob_consistent # "None"
              <=> (FormatValid /\ ExtractedDob # None /\ DecodedDob # None)
        /\ validation.civil_id_dob_consistent # "None"
              => validation.civil_id_dob_consistent = Tri(ExtractedDob = DecodedDob)
        /\ Has(validation.warnings, W.dob_cid) <=> validation.civil_id_dob_consistent = "False"
        /\ Has(validation.warnings, W.exp_cid)
              <=> (ExpectedDob # None /\ DecodedDob # None /\ ExpectedDob # DecodedDob)
        /\ ~validation.overall_pass
              => \/ NoKeyFields
                 \/ validation.civil_id_format_valid = "False"
                 \/ validation.civil_id_checksum_valid = "False"
                 \/ validation.civil_id_dob_consistent = "False"
                 \/ validation.dob_plausible = "False"
                 \/ validation.name_match = "False"

\* the expected birth date conflicts with the identifier, the extracted one agrees with it,
\* and the validation passes with the conflict warning
C19_Witness ==
    /\ Returned
    /\ fields.civil_id = Ids.valid_2003
    /\ validation.civil_id_dob_consistent = "True"
    /\ expected_dob = IsoText(<<1999, 4, 12>>)
    /\ Has(validation.warnings, W.exp_cid)
    /\ validation.overall_pass

-----------------------------------------------------------------------------
(* C20 *)

\* age in whole years: the year difference, minus one when today's month/day precedes
\* the birth month/day
StatedAge(birth, now) ==
    now[1] - birth[1]
        - (IF now[2] * 100 + now[3] < birth[2] * 100 + birth[3] THEN 1 ELSE 0)

\* C20: dob_plausible is absent iff neither the extracted nor the expected birth date is
\* available; otherwise it is computed from the extracted date when that exists and from
\* the expected one only otherwise, and it is true iff the age in whole years as of today
\* lies in [min_age, max_age]; a birth date after today is implausible.
C20_DobPlausible ==
    Returned =>
        LET used == IF ExtractedDob # None THEN ExtractedDob ELSE ExpectedDob
        IN  /\ validation.dob_plausible = "None" <=> (ExtractedDob = None /\ ExpectedDob = None)
            /\ used # None
                  => /\ validation.dob_plausible
                          = Tri(StatedAge(used, today) >= min_age /\ StatedAge(used, today) <= max_age)
                     /\ StatedAfter(used, today) => validation.dob_plausible = "False"

\* a birth date one day short of the sixteenth birthday, with an older expected date given
C20_Witness ==
    /\ Returned
    /\ today = <<2026, 11, 1>>
    /\ ExtractedDob = <<2010, 11, 2>>
    /\ ExpectedDob = <<2003, 9, 16>>
    /\ validation.dob_plausible = "False"

-----------------------------------------------------------------------------
(* C12: whenever extract_fields returns an identifier, it is a string of   *)
(* exactly 12 ASCII digits '0'..'9', whatever the OCR lines are.           *)

IsAsciiDigit(c) == c \in 0..9

IdentifierExtracted == xpc \in {"dates", "done"} /\ fields.civil_id # None

C12_IdentifierIsTwelveAsciiDigits ==
    IdentifierExtracted =>
        /\ Len(fields.civil_id) = 12
        /\ \A i \in 1..12 : IsAsciiDigit(fields.civil_id[i])

-----------------------------------------------------------------------------
(* C13: if a 12-digit candidate is found on a line carrying an identifier  *)
(* label or on one of the two lines after it, the identifier returned is   *)
(* the highest-scoring of those labeled candidates, even when an unlabeled *)
(* candidate elsewhere in the document scores higher.                      *)

Elements(seq) == {seq[k] : k \in 1..Len(seq)}

\* the candidates of the labeled pass with the scores they were offered with
LabeledCandidates == Elements(LabeledPass(clean_lines, today))

\* the candidates the per-line and cross-line passes would put on their scoreboard
UnlabeledCandidates == Elements(UnlabeledScoreboard(clean_lines, today))

IdentifierPicked == xpc \in {"dates", "done"}

C13_LabeledCandidatesShortCircuit ==
    IdentifierPicked /\ LabeledCandidates # {} =>
        \E c \in LabeledCandidates :
            /\ c.id = fields.civil_id
            /\ \A d \in LabeledCandidates : d.score <= c.score

\* a labeled candidate is returned although an unlabeled one scores higher than all of them
C13_Witness ==
    /\ IdentifierPicked
    /\ LabeledCandidates # {}
    /\ \E u \in UnlabeledCandidates :
           /\ u.id # fields.civil_id
           /\ _civil_checksum_valid(u.id)
           /\ ~_civil_checksum_valid(fields.civil_id)
           /\ \A d \in LabeledCandidates : d.score < u.score

-----------------------------------------------------------------------------
(* C15: when no labeled candidate exists, identifiers split across lines   *)
(* are reconstructed: from each line index the digits (after glyph         *)
(* recovery) of up to 4 consecutive lines are concatenated, stopping at    *)
(* the first line without digits, and every 12-digit window is a           *)
(* candidate; an identifier split over consecutive digit-only lines is     *)
(* returned whole.                                                         *)

StatedDigitsOfLine(j) ==
    IF j > Len(clean_lines) THEN <<>>
    ELSE SelectSeq(_normalize_for_digit_recovery(clean_lines[j]), IsDigitChar)

\* the digits of n consecutive lines from line i on, when each of them has digits
StatedJoin(i, n) ==
    StatedDigitsOfLine(i)
    \o (IF n >= 2 THEN StatedDigitsOfLine(i + 1) ELSE <<>>)
    \o (IF n >= 3 THEN StatedDigitsOfLine(i + 2) ELSE <<>>)
    \o (IF n >= 4 THEN StatedDigitsOfLine(i + 3) ELSE <<>>)

StatedJoinable(i, n) ==
    i + n - 1 <= Len(clean_lines) /\ \A j \in i..(i + n - 1) : StatedDigitsOfLine(j) # <<>>

StatedCrossLineWindows ==
    UNION { { SubSeq(StatedJoin(i, n), k, k + 11) : k \in 1..(Len(StatedJoin(i, n)) - 11) } :
            <<i, n>> \in { p \in (1..Len(clean_lines)) \X (1..4) : StatedJoinable(p[1], p[2]) } }

StatedLineCandidates ==
    UNION { {c.id : c \in Elements(_collect_line_candidates(clean_lines[i]))} :
            i \in 1..Len(clean_lines) }

\* an identifier cut into two to four lines of digits and nothing else
SplitOverDigitLines ==
    /\ Len(clean_lines) \in 2..4
    /\ \A i \in 1..Len(clean_lines) :
           clean_lines[i] # <<>> /\ \A k \in 1..Len(clean_lines[i]) : IsDigitChar(clean_lines[i][k])
    /\ Len(StatedJoin(1, Len(clean_lines))) = 12

C15_CrossLineReconstruction ==
    IdentifierPicked /\ LabeledCandidates = {} =>
        /\ fields.civil_id # None <=> StatedLineCandidates \cup StatedCrossLineWindows # {}
        /\ fields.civil_id # None =>
               fields.civil_id \in StatedLineCandidates \cup StatedCrossLineWindows
        /\ SplitOverDigitLines => fields.civil_id = StatedJoin(1, Len(clean_lines))

\* an identifier that no single line holds is put together from four lines
C15_Witness ==
    /\ IdentifierPicked
    /\ LabeledCandidates = {}
    /\ Len(clean_lines) = 4
    /\ SplitOverDigitLines
    /\ StatedLineCandidates = {}
    /\ fields.civil_id = IdLine.bare_valid

-----------------------------------------------------------------------------
(* C16: in a document with no identifier label a checksum-valid 12-digit   *)
(* window always scores strictly higher than every checksum-invalid        *)
(* candidate, so when exactly one candidate is checksum-valid, it is the   *)
(* identifier returned.                                                    *)

NoIdentifierLabel == \A i \in 1..Len(clean_lines) : ~_has_civil_label(clean_lines[i])

\* every candidate of the per-line and cross-line passes with every score it was given
UnlabeledPushes == Elements(LinePass(clean_lines, today) \o ChunkPass(clean_lines, today))

ChecksumValidIds == {c.id : c \in {u \in UnlabeledPushes : _civil_checksum_valid(u.id)}}

C16_ChecksumValidOutscoresInvalid ==
    IdentifierPicked /\ NoIdentifierLabel =>
        /\ \A u, v \in UnlabeledPushes :
               _civil_checksum_valid(u.id) /\ ~_civil_checksum_valid(v.id) => u.score > v.score
        /\ Cardinality(ChecksumValidIds) = 1 => fields.civil_id \in ChecksumValidIds

\* the one checksum-valid window of a longer digit run is returned, not the other windows
C16_Witness ==
    /\ IdentifierPicked
    /\ NoIdentifierLabel
    /\ Cardinality(ChecksumValidIds) = 1
    /\ \E v \in UnlabeledPushes : ~_civil_checksum_valid(v.id)
    /\ StatedLineCandidates # {}
    /\ \A i \in 1..Len(clean_lines) : \A r \in Elements(DigitRuns(clean_lines[i])) : Len(r) # 12
    /\ fields.civil_id = IdLine.bare_valid

-----------------------------------------------------------------------------
(* C17: with no identifier, a birth-labelled line 'Birth Date 16/09/2003'  *)
(* followed by an expiry label split as 'ex' / 'piy Date' gives the birth  *)
(* date 16/09/2003 and the expiry date 16/09/2028, both when 16/09/2028 is *)
(* on the 'piy Date' line and when it is on the line after it; the         *)
(* contextual label of a neighbouring line never makes the birth-labelled  *)
(* date the expiry date while a later date carries the expiry label.       *)

DatesPicked == xpc = "done"

Date_2003 == <<2003, 9, 16>>
Date_2028 == <<2028, 9, 16>>

\* the expiry label split over 'ex' and 'piy Date', the date on the 'piy Date' line
SplitLabelDateOnLabelLine ==
    /\ Len(clean_lines) >= 3
    /\ clean_lines[1] \in {DateLine.birth, DateLine.birth_colon}
    /\ clean_lines[2] = DateLine.ex
    /\ clean_lines[3] = DateLine.piy_date
    /\ \A i \in 4..Len(clean_lines) : DateCandidatesOfLine(clean_lines, i, today) = <<>>

\* the same with the date on the line after 'piy Date'
SplitLabelDateOnNextLine ==
    /\ Len(clean_lines) >= 4
    /\ clean_lines[1] \in {DateLine.birth, DateLine.birth_colon}
    /\ clean_lines[2] = DateLine.ex
    /\ clean_lines[3] = DateLine.piy
    /\ clean_lines[4] = DateLine.date_2028
    /\ \A i \in 5..Len(clean_lines) : DateCandidatesOfLine(clean_lines, i, today) = <<>>

DateCandidates == Elements(_collect_date_candidates(clean_lines, today))

\* b is the date of a birth-labelled line, taken as the birth date, and the expiry label
\* reaches it only through a neighbouring line
BirthLabelledWithContextualExpiry(b) ==
    /\ b.direct_dob_label
    /\ ~b.direct_expiry_label
    /\ b.has_expiry_label
    /\ fields.birth_date = _format_date_output(b.value)

\* e is a later date, on a later line, that carries the expiry label
LaterExpiryLabelled(b, e) ==
    /\ e.has_expiry_label
    /\ e.line_index > b.line_index
    /\ DateLess(b.value, e.value)

C17_SplitExpiryLabel ==
    DatesPicked /\ fields.civil_id = None =>
        /\ SplitLabelDateOnLabelLine \/ SplitLabelDateOnNextLine =>
               /\ fields.birth_date = _format_date_output(Date_2003)
               /\ fields.expiry_date = _format_date_output(Date_2028)
        /\ \A b, e \in DateCandidates :
               BirthLabelledWithContextualExpiry(b) /\ LaterExpiryLabelled(b, e) =>
                   fields.expiry_date # _format_date_output(b.value)

\* both splittings are extracted, and so is a birth-labelled date the expiry label reaches
C17_Witness ==
    /\ DatesPicked
    /\ fields.civil_id = None
    /\ SplitLabelDateOnNextLine
    /\ fields.expiry_date = _format_date_output(Date_2028)

C17_WitnessContextual ==
    /\ DatesPicked
    /\ fields.civil_id = None
    /\ \E b, e \in DateCandidates :
           /\ BirthLabelledWithContextualExpiry(b)
           /\ LaterExpiryLabelled(b, e)
           /\ ~e.direct_expiry_label
           /\ fields.expiry_date = _format_date_output(e.value)

-----------------------------------------------------------------------------
(* C14: the birth date is resolved by strict priority: the date decoded    *)
(* from the extracted identifier when it decodes; else the first date on a *)
(* line that itself carries a birth label; else the first date on a line   *)
(* whose birth label is only contextual; else the first age-plausible date *)
(* anywhere.  A lower source is used only when every higher one yields     *)
(* nothing.                                                                *)

DateCandidateList == _collect_date_candidates(clean_lines, today)

IdentifierDate ==
    IF fields.civil_id = None THEN None ELSE _civil_id_to_dob(fields.civil_id, today)

\* the value of the first candidate kept, or None
FirstDate(kept) == IF kept = <<>> THEN None ELSE kept[1].value

StatedDirect(cl) == FirstDate(SelectSeq(cl, LAMBDA c : c.direct_dob_label))
StatedContextual(cl) ==
    FirstDate(SelectSeq(cl, LAMBDA c : c.has_dob_label /\ ~c.direct_dob_label))
StatedPlausible(cl) == FirstDate(SelectSeq(cl, LAMBDA c : _dob_plausible(c.value, today)))

StatedBirthDate(cl) ==
    IF IdentifierDate # None THEN IdentifierDate
    ELSE IF StatedDirect(cl) # None THEN StatedDirect(cl)
    ELSE IF StatedContextual(cl) # None THEN StatedContextual(cl)
    ELSE StatedPlausible(cl)

\* as stated: the labelled sources take the first date of the line, whatever its age
C14_BirthDatePriority ==
    DatesPicked =>
        LET stated == StatedBirthDate(DateCandidateList)
        IN  stated # None => fields.birth_date = _format_date_output(stated)

\* in the code every source that reads the text takes the first age-plausible date
PlausibleDirect(cl) ==
    FirstDate(SelectSeq(cl, LAMBDA c : c.direct_dob_label /\ _dob_plausible(c.value, today)))
PlausibleContextual(cl) ==
    FirstDate(SelectSeq(cl, LAMBDA c : /\ c.has_dob_label /\ ~c.direct_dob_label
                                       /\ _dob_plausible(c.value, today)))

AmendedBirthDate(cl) ==
    IF IdentifierDate # None THEN IdentifierDate
    ELSE IF PlausibleDirect(cl) # None THEN PlausibleDirect(cl)
    ELSE IF PlausibleContextual(cl) # None THEN PlausibleContextual(cl)
    ELSE StatedPlausible(cl)

\* C14 as amended: the same priority, each of the three sources that read the text taking
\* the first age-plausible date (0 to 120 years) it offers.
C14_BirthDatePriorityPlausible ==
    DatesPicked =>
        LET amended == AmendedBirthDate(DateCandidateList)
        IN  amended # None => fields.birth_date = _format_date_output(amended)

\* a birth-labelled date in the future is passed over for a plausible date further down
C14_Witness ==
    /\ DatesPicked
    /\ IdentifierDate = None
    /\ LET cl == DateCandidateList
       IN  /\ StatedDirect(cl) # None
           /\ ~_dob_plausible(StatedDirect(cl), today)
           /\ AmendedBirthDate(cl) # None
           /\ fields.birth_date = _format_date_output(AmendedBirthDate(cl))

-----------------------------------------------------------------------------
(* C21 *)

LoopLeft == pc \in {"validate", "done"} /\ retry_images # <<>>

SelectedWarned == Has(warnings, SelectedWarning(best_source))
LowConfWarned == Has(warnings, W.low_conf)
StillLowConf == ocr.mean_confidence < cfg.low_conf_threshold

\* C21 as stated: after the retry loop a best source other than the first pass is named in
\* a warning; otherwise a mean confidence still below the threshold gets the
\* low-confidence warning, whichever condition triggered the retry; never both warnings.
C21_PostLoopWarning ==
    LoopLeft =>
        /\ best_source # "preprocessed" => SelectedWarned
        /\ best_source = "preprocessed" /\ StillLowConf => LowConfWarned
        /\ ~(SelectedWarned /\ LowConfWarned)

\* C21 amended: after the retry loop a best source other than the first pass is named in
\* a warning; otherwise the low-confidence warning is emitted exactly when the retry was
\* triggered by low confidence (the confidence of the kept first pass is then still
\* below the threshold); the two warnings are never both emitted.
C21_PostLoopWarningLowConfTrigger ==
    LoopLeft =>
        /\ best_source # "preprocessed" => SelectedWarned /\ ~LowConfWarned
        /\ best_source = "preprocessed" =>
              /\ ~Has(warnings, SelectedWarning("preprocessed"))
              /\ LowConfWarned <=> retry_for_low_conf
              /\ retry_for_low_conf => StillLowConf

\* the retry was triggered by missing fields alone, no retry beat the first pass, whose
\* confidence is below the threshold, and no low-confidence warning was emitted
C21_Witness ==
    /\ LoopLeft
    /\ best_source = "preprocessed"
    /\ ~retry_for_low_conf
    /\ StillLowConf
    /\ ~LowConfWarned

\* the retry was triggered by low confidence and the kept first pass is warned about
C21_WitnessLowConf ==
    /\ LoopLeft
    /\ best_source = "preprocessed"
    /\ retry_for_low_conf
    /\ LowConfWarned

-----------------------------------------------------------------------------
(* C22 *)

\* the fixed priority order of the retry variants
FixedOrder ==
    << "original", "top60", "top50", "mid80", "bottom60", "card1", "card2", "card3",
       "rot90", "rot180", "rot270" >>

\* the generated list read in the fixed order
GeneratedInFixedOrder ==
    SelectSeq(FixedOrder, LAMBDA l : \E i \in 1..Len(retry_images) : retry_images[i].label = l)

RotationsGenerated == \E i \in 1..Len(retry_images) : retry_images[i].label = "rot90"

\* C22: once retrying begins the generated list starts with the original, holds rotations
\* only when rotation retry is enabled, and lists its variants once each in the fixed
\* order; the loop takes the variants up one at a time in that order, a new one only
\* after both sub-candidates of the previous one, and leaves only after the last one,
\* also when the current best already has the maximum field score.
C22_FixedOrderNoEarlyExit ==
    /\ [](retry_images # <<>> =>
            /\ Labels(retry_images) = GeneratedInFixedOrder
            /\ retry_images[1].label = "original"
            /\ RotationsGenerated <=> cfg.try_rotations_on_missing_fields
            /\ Len(attempted) <= Len(retry_images)
            /\ attempted = SubSeq(GeneratedInFixedOrder, 1, Len(attempted)))
    /\ [][attempted' # attempted =>
            /\ pc = "retrying" /\ sub = 0
            /\ attempted' = Append(attempted, GeneratedInFixedOrder[Len(attempted) + 1])]_vars
    /\ [][(pc = "retrying" /\ pc' # "retrying") =>
            (pc' = "post_loop" /\ attempted' = GeneratedInFixedOrder)]_vars
    /\ []((pc \in {"post_loop", "validate", "done"} /\ retry_images # <<>>) =>
            attempted = GeneratedInFixedOrder)

\* the first pass already had the maximum field score (the retry was for low confidence)
\* and all eleven variants, card regions and rotations included, were taken up
C22_Witness ==
    /\ pc = "done"
    /\ _field_score(ExtractPass(RunOcr("preprocessed", doc.baseline))) = 15
    /\ attempted = FixedOrder

-----------------------------------------------------------------------------
(* C23 *)

RankOf(c) == StatedRank(c.fields, c.ocr.mean_confidence)

\* the candidate kept when the candidates of the state arrive in order o
KeptArriving(o) == Arrival(cands, o)[KeptIndex(Arrival(cands, o))]

\* the place in the arrival order o of the candidate kept
KeptPlace(o) == KeptIndex(Arrival(cands, o))

TopRanked == {i \in 1..3 : CandRank(i) = CandRank(selected)}

\* C23 as stated: whatever the order in which the same candidates are evaluated, the
\* candidate selected (OCR result, fields and source label) is the same, also when two
\* distinct candidates have equal rank.
C23_SelectionIndependentOfArrival ==
    selected # 0 => \A o \in Orders : KeptArriving(o) = cands[selected]

\* C23 amended: whatever the order in which the same candidates are evaluated, the
\* candidate selected has the same (field score, confidence) rank, the greatest of the
\* set; it is the same candidate when only one candidate has that rank, and among
\* distinct candidates of that rank it is the one that arrived first.
C23_SelectionUpToTies ==
    selected # 0 =>
        \A o \in Orders :
            /\ RankOf(KeptArriving(o)) = CandRank(selected)
            /\ \A i \in 1..3 : ~Outranks(CandRank(i), RankOf(KeptArriving(o)))
            /\ Cardinality(TopRanked) = 1 => KeptArriving(o) = cands[selected]
            /\ \A k \in 1..3 :
                  RankOf(Arrival(cands, o)[k]) = CandRank(selected) => KeptPlace(o) <= k

\* two distinct candidates share the greatest rank: the first to arrive was selected, and
\* in another order of arrival the other one is
C23_Witness ==
    /\ selected = 1
    /\ CandRank(2) = CandRank(1)
    /\ cands[2] # cands[1]
    /\ KeptArriving(<<2, 1, 3>>) = cands[2]

-----------------------------------------------------------------------------
(* C24 *)

\* what resolution steps 1-5 settle on (lines 410-471), before the fallback scan
BeforeMrzOf(cl, dob) == [dob |-> dob.date, expiry |-> ResolveExpiry(cl, dob)]
BeforeMrz == BeforeMrzOf(DateCandidateList, ResolveDob(DateCandidateList, fields.civil_id, today))

\* what _pick_dob_and_expiry settles on
Resolved == ResolveDates(clean_lines, fields.civil_id, today)

BirthFromMrz == Resolved.dob # BeforeMrz.dob
ExpiryFromMrz == Resolved.expiry # BeforeMrz.expiry

\* C24 as stated: whenever a birth date or an expiry date is taken from the MRZ pattern,
\* steps 1-5 had resolved neither the birth date nor the expiry date.
C24_MrzOnlyWhenNothingResolved ==
    (DatesPicked /\ (BirthFromMrz \/ ExpiryFromMrz)) =>
        (BeforeMrz.dob = None /\ BeforeMrz.expiry = None)

\* C24 amended: whenever a birth date or an expiry date is taken from the MRZ pattern,
\* steps 1-5 had resolved no expiry date, the text holding no parsable date; a birth date
\* they had resolved was decoded from the identifier and is kept, the MRZ expiry date
\* being later than it; without the MRZ pattern the dates returned are those of steps 1-5.
C24_MrzOnlyWhenNoExpiryResolved ==
    DatesPicked =>
        /\ fields.birth_date = FormatDates(Resolved).birth_out
        /\ fields.expiry_date = FormatDates(Resolved).expiry_out
        /\ (BirthFromMrz \/ ExpiryFromMrz) =>
              /\ BeforeMrz.expiry = None
              /\ DateCandidateList = <<>>
              /\ BeforeMrz.dob # None =>
                    /\ BeforeMrz.dob = IdentifierDate
                    /\ Resolved.dob = BeforeMrz.dob
                    /\ Resolved.expiry # None => DateLess(Resolved.dob, Resolved.expiry)
        /\ BeforeMrz.expiry # None =>
              (Resolved.dob = BeforeMrz.dob /\ Resolved.expiry = BeforeMrz.expiry)

\* the birth date was decoded from the identifier and the expiry date comes from the MRZ
\* pattern (tests/test_extraction.py, the noisy serial)
C24_Witness ==
    /\ DatesPicked
    /\ BeforeMrz.dob = <<2003, 9, 16>>
    /\ BeforeMrz.expiry = None
    /\ fields.birth_date = _format_date_output(<<2003, 9, 16>>)
    /\ fields.expiry_date = _format_date_output(<<2022, 9, 16>>)

\* nothing resolved by steps 1-5: both dates come from the MRZ pattern
C24_WitnessBoth ==
    /\ DatesPicked
    /\ BeforeMrz.dob = None
    /\ BirthFromMrz /\ ExpiryFromMrz

-----------------------------------------------------------------------------
(* C25 *)

FieldsReturned == xpc = "done"

\* the names pass 1 accepts, in discovery order
FirstPassNames == FirstPass(clean_lines)

\* the word-like tokens of an accepted name
NameTokens(value) == Words(value)

\* C25 (as claimed): every name pass 1 accepts has at least two word-like tokens after
\* the non-letter characters were filtered out, matches no non-name label pattern and
\* scores above 0.6; when pass 1 accepts any name, the candidates returned are the pass-1
\* names in discovery order, the first being the name, with nothing from passes 2 and 3.
C25_FirstPassNames ==
    FieldsReturned =>
        /\ \A k \in 1..Len(FirstPassNames) :
              /\ Len(NameTokens(FirstPassNames[k])) >= 2
              /\ \A t \in 1..Len(NameTokens(FirstPassNames[k])) :
                    \A i \in 1..Len(NameTokens(FirstPassNames[k])[t]) :
                        IsNameChar(NameTokens(FirstPassNames[k])[t][i])
              /\ ~looks_like_non_name_label(FirstPassNames[k])
              /\ ScoreAbove(_name_score(FirstPassNames[k]), 60)
        /\ FirstPassNames # <<>> =>
              /\ fields.candidate_names = FirstPassNames
              /\ fields.name = FirstPassNames[1]

-----------------------------------------------------------------------------
(* C26 *)

CopiesApplied == dpc = "done"

\* C26: on every text the checksum test of extraction.py gives the verdict of the one of
\* validation.py, and the decoding of extraction.py the date (or the absence of a date)
\* of the one of validation.py.
C26_CopiesAgree ==
    CopiesApplied =>
        /\ decoded.extraction_checksum = decoded.validation_checksum
        /\ decoded.extraction_dob = decoded.validation_dob
        /\ decoded.extraction_checksum = _civil_checksum_valid(encoded)
        /\ decoded.validation_dob = extract_dob_from_civil_id(encoded, today)

\* an identifier both copies accept and decode, one they both decode but refuse for its
\* check digit, one born after today and a text of Persian digits
C26_Witness ==
    /\ CopiesApplied
    /\ decoded.validation_checksum
    /\ decoded.validation_dob = <<2003, 9, 16>>

C26_WitnessFuture ==
    /\ CopiesApplied
    /\ Len(encoded) = 12
    /\ lead = 3 /\ born = <<2027, 2, 16>> /\ today = <<2026, 11, 1>>
    /\ decoded.extraction_dob = None

-----------------------------------------------------------------------------
(* C27 *)

Validated == xpc = "done" /\ vpc = "returned"

\* the date validation.py decodes from the identifier extracted
ValidationDecoded ==
    IF Truthy(fields.civil_id) /\ _CIVIL_RE_fullmatch(fields.civil_id)
    THEN extract_dob_from_civil_id(fields.civil_id, today) ELSE None

\* C27: validate_fields applied to the fields extract_fields returned never reports
\* civil_id_dob_consistent = False: whenever the identifier extracted decodes to a date,
\* the birth date extracted is that date, and the check reports True.
C27_ExtractedDobConsistent ==
    Validated =>
        /\ validation.civil_id_dob_consistent # "False"
        /\ ~Has(validation.warnings, W.dob_cid)
        /\ ValidationDecoded # None =>
              /\ fields.birth_date = _format_date_output(ValidationDecoded)
              /\ parse_iso_date(fields.birth_date) = ValidationDecoded
              /\ validation.civil_id_dob_consistent = "True"

\* the identifier decodes and the text holds a birth-labelled date that differs from it
C27_Witness ==
    /\ Validated
    /\ validation.civil_id_dob_consistent = "True"
    /\ \E k \in 1..Len(DateCandidateList) :
          /\ DateCandidateList[k].direct_dob_label
          /\ DateCandidateList[k].value # ValidationDecoded

-----------------------------------------------------------------------------
(* C28 *)

\* the dates returned, read back from their DD/MM/YYYY text
BirthOut == parse_iso_date(fields.birth_date)
ExpiryOut == parse_iso_date(fields.expiry_date)

BothDatesReturned == DatesPicked /\ BirthOut # None /\ ExpiryOut # None

\* C28 as stated: whenever a birth date and an expiry date are both returned, the expiry
\* date is strictly later than the birth date.
C28_ExpiryAfterBirth ==
    BothDatesReturned => DateLess(BirthOut, ExpiryOut)

\* the dates the expiry date is chosen from: the directly expiry-labelled ones when there
\* are any, else the contextually expiry-labelled ones when there are any, else all
ExpiryPoolOf(cl, direct, contextual) ==
    IF direct # <<>> THEN direct ELSE IF contextual # <<>> THEN contextual ELSE cl

ExpiryPool ==
    ExpiryPoolOf(DateCandidateList,
                 SelectSeq(DateCandidateList, LAMBDA c : c.direct_expiry_label),
                 SelectSeq(DateCandidateList, LAMBDA c : c.has_expiry_label))

LaterInPool(pool, birth) == \E k \in 1..Len(pool) : DateLess(birth, pool[k].value)

ExpiryAfterBirthWhenAvailable(pool, birth, expiry) ==
    /\ (LaterInPool(pool, birth) \/ pool = <<>>) => DateLess(birth, expiry)
    /\ (~LaterInPool(pool, birth) /\ pool # <<>>) =>
          /\ ~DateLess(birth, expiry)
          /\ \E k \in 1..Len(pool) : pool[k].value = expiry

\* C28 amended: whenever a birth date and an expiry date are both returned, the expiry
\* date is strictly later than the birth date provided a date strictly later than the
\* birth date is among the dates the expiry date is chosen from (or the text has no date
\* and the expiry date comes from the MRZ pattern); when no such date is among them, the
\* expiry date returned is one of them and is not later than the birth date.
C28_ExpiryAfterBirthWhenAvailable ==
    BothDatesReturned => ExpiryAfterBirthWhenAvailable(ExpiryPool, BirthOut, ExpiryOut)

\* the only date of the text is both the birth date and the expiry date
C28_Witness ==
    /\ BothDatesReturned
    /\ ExpiryOut = BirthOut
    /\ Len(DateCandidateList) = 1

\* the pool holds a date before the birth date and one after it: the expiry date is later
C28_WitnessLater ==
    /\ BothDatesReturned
    /\ DateLess(BirthOut, ExpiryOut)
    /\ \E k \in 1..Len(ExpiryPool) : DateLess(ExpiryPool[k].value, BirthOut)

(* C29 *)

\* the local winner is about to replace the current best (lines 172-176)
BestReplaced == pc = "retrying" /\ sub = 3 /\ ReplacesBest(ocr, fields)

\* process_document has returned its PipelineResult
ResultReturned == pc = "done" /\ result # NoPipelineResult

\* C29: the preprocess_angle reported in PipelineResult is always the deskew angle of the
\* initial preprocessing pass: a step that replaces the current best by a retry candidate
\* sets the source, the OCR result (with its mean confidence) and the fields to the
\* candidate's and leaves the first pass's artifacts alone, no later step touches them, and
\* the result reports the first pass's angle next to the selected source, confidence and
\* fields, also when the selected source is a crop or a rotation.
C29_AngleIsBaseline ==
    /\ [](ResultReturned =>
            /\ result.preprocess_angle = doc.angle
            /\ result.ocr_source = best_source
            /\ result.ocr_mean_confidence = ocr.mean_confidence
            /\ result.extracted = fields)
    /\ [][BestReplaced =>
            /\ best_source' \notin {best_source, "preprocessed"}
            /\ ocr' = local_best_ocr
            /\ fields' = local_best_fields
            /\ <<_field_score(fields'), ocr'.mean_confidence>>
                  # <<_field_score(fields), ocr.mean_confidence>>
            /\ prep' = prep]_vars
    /\ [][pc \notin {"idle", "initial"} => prep' = prep]_vars

\* the result's source is a retry candidate whose image was preprocessed with another angle
C29_Witness ==
    /\ ResultReturned
    /\ result.ocr_source # "preprocessed"
    /\ doc.retry_angle # doc.angle
    /\ result.preprocess_angle = doc.angle

\* the selected source is a rotation of the page
C29_WitnessRotation ==
    /\ ResultReturned
    /\ result.ocr_source \in {SubLabel(l, k) : l \in {"rot90", "rot180", "rot270"}, k \in {1, 2}}

-----------------------------------------------------------------------------
(* Specification SpecLoopFair: the retry loop, run to the end *)

\* process_document is sequential code on one thread: whenever a next statement exists it
\* is executed, every call in it having returned or thrown
SpecLoopFair == InitLoop /\ [][NextPipe]_vars /\ WF_vars(NextPipe)

-----------------------------------------------------------------------------
(* C30 *)

\* lines 90-111: original, at most 4 band crops, at most 3 card-like regions, 3 rotations
MostRetryImages == 1 + 4 + max_regions + 3

NoLabelTwice(s) == \A i, j \in 1..Len(s) : s[i] = s[j] => i = j

\* the OCR calls stay within the budget and no retry candidate is taken up twice
WithinBudget ==
    /\ Len(retry_images) <= MostRetryImages
    /\ ocr_calls <= 1 + 2 * Len(retry_images)
    /\ ocr_calls <= 1 + 2 * Len(attempted)
    /\ (pc = "done" /\ retry_images = <<>>) => ocr_calls = 1
    /\ NoLabelTwice(Labels(retry_images))
    /\ NoLabelTwice(attempted)

\* the loop only moves forward: an OCR call of the loop is the next sub-candidate of the
\* image in hand, and the image in hand is never one before
LoopMovesForward ==
    /\ (pc = "retrying" /\ ocr_calls' # ocr_calls) =>
          (ocr_calls' = ocr_calls + 1 /\ idx' = idx /\ sub \in {1, 2} /\ sub' = sub + 1)
    /\ (pc = "retrying" /\ idx' # idx) => idx' = idx + 1

\* C30: the orchestration always reaches its terminal state Done, every call returning or
\* throwing: it performs exactly one OCR call when no retry is triggered, and otherwise at
\* most 1 + 2*N OCR calls where N is the number of retry images, N <= 11; no candidate is
\* ever evaluated twice.
C30_ReachesDoneWithinBudget ==
    /\ <>(pc = "done")
    /\ []WithinBudget
    /\ [][LoopMovesForward]_vars

\* what holds of the code: the same, once the first pass has returned
ReachesDoneOnceFirstPassReturned ==
    /\ (pc = "evaluate") ~> (pc = "done")
    /\ []WithinBudget
    /\ [][LoopMovesForward]_vars

\* a run that spends the whole budget: 11 retry images, 23 OCR calls
FullBudgetSpent ==
    pc = "done" /\ Len(retry_images) = MostRetryImages /\ ocr_calls = 1 + 2 * MostRetryImages

=============================================================================
